---- MODULE Spec2Model ----
(***************************************************************************)
(* Sniffr: the candidate ranking pipeline.                                 *)
(*   content.js      the in-page scanner and local heuristic scorer        *)
(*   popup.js        performSearch, the orchestration of one query         *)
(*   background.js   the relay to the ranking gateway                      *)
(*   sniffr-proxy.js the ranking gateway (rate limit, cache, remote call)  *)
(* Strings are sequences of one-character strings, so that toLowerCase,    *)
(* trim, split, includes and slice are computed as the code computes them. *)
(***************************************************************************)
EXTENDS Integers, Sequences, FiniteSets, TLC

\* ------------------------------------------------------------------------
\* String helpers (JavaScript String methods used by content.js)
\* ------------------------------------------------------------------------

UpperChars == <<"A","B","C","D","E","F","G","H","I","J","K","L","M",
                "N","O","P","Q","R","S","T","U","V","W","X","Y","Z">>

LowerChars == <<"a","b","c","d","e","f","g","h","i","j","k","l","m",
                "n","o","p","q","r","s","t","u","v","w","x","y","z">>

toLowerChar(c) ==
  IF \E k \in 1..Len(UpperChars) : UpperChars[k] = c
  THEN LowerChars[CHOOSE k \in 1..Len(UpperChars) : UpperChars[k] = c]
  ELSE c

\* String.prototype.toLowerCase
toLowerCase(s) == [i \in 1..Len(s) |-> toLowerChar(s[i])]

isSpace(c) == c \in {" ", "\n", "\t"}

\* String.prototype.trim
trim(s) ==
  IF \A i \in 1..Len(s) : isSpace(s[i]) THEN <<>>
  ELSE LET a == CHOOSE i \in 1..Len(s) :
                  ~isSpace(s[i]) /\ \A j \in 1..(i-1) : isSpace(s[j])
           b == CHOOSE i \in 1..Len(s) :
                  ~isSpace(s[i]) /\ \A j \in (i+1)..Len(s) : isSpace(s[j])
       IN SubSeq(s, a, b)

\* String.prototype.includes
includes(hay, needle) ==
  \E i \in 0..(Len(hay) - Len(needle)) : SubSeq(hay, i + 1, i + Len(needle)) = needle

\* String.prototype.slice(0, n)
slice0(s, n) == SubSeq(s, 1, IF Len(s) < n THEN Len(s) ELSE n)

\* q.split(/\s+/).filter(Boolean): the maximal runs of non-space characters,
\* from left to right
splitWords(s) ==
  LET starts == { i \in 1..Len(s) : ~isSpace(s[i]) /\ (i = 1 \/ isSpace(s[i - 1])) }
      endOf(a) == CHOOSE b \in a..Len(s) :
                    /\ \A j \in a..b : ~isSpace(s[j])
                    /\ b = Len(s) \/ isSpace(s[b + 1])
      nth(k) == CHOOSE a \in starts : Cardinality({ x \in starts : x < a }) = k - 1
  IN [k \in 1..Cardinality(starts) |-> SubSeq(s, nth(k), endOf(nth(k)))]

\* ------------------------------------------------------------------------
\* content.js: configuration
\* ------------------------------------------------------------------------

MAX_CANDIDATES == 800

MAX_RESULTS == 5

MIN_ACCEPT_SCORE == 8

\* ------------------------------------------------------------------------
\* content.js: the page.  A document is three lists of elements in document
\* order, as the three querySelectorAll calls return them.  An element is
\*   [el, text, href, attrHref, landmark, top, shown, tagName]
\* el        identity of the DOM node
\* text      the first non-empty readable label of the node
\* href      a.href (resolved), attrHref the raw href attribute
\* landmark  nearest nav/header/footer ancestor ("" when there is none)
\* top       rect.top as a percentage of window.innerHeight
\* shown     display/visibility/opacity/size make the node rendered
\* ------------------------------------------------------------------------

isVisible(e) == e.shown

getRegion(e) ==
  IF e.landmark # "" THEN e.landmark
  ELSE IF e.top < 25 THEN "upper" ELSE "body"

extractText(e) == trim(e.text)

ELLIPSIS == <<"...">>

shortSnippet(text, max) ==
  IF text = <<>> THEN <<>>
  ELSE IF Len(text) > max THEN SubSeq(text, 1, max - 1) \o ELLIPSIS ELSE text

\* the candidate object each loop of getSearchCandidates builds for element e
linkCandidate(e) ==
  [type |-> "link", text |-> extractText(e),
   href |-> IF e.href # <<>> THEN e.href ELSE e.attrHref,
   el |-> e.el, region |-> getRegion(e), tagName |-> "a"]

buttonCandidate(e) ==
  [type |-> "button", text |-> extractText(e), href |-> e.attrHref,
   el |-> e.el, region |-> getRegion(e), tagName |-> e.tagName]

headingCandidate(e) ==
  [type |-> "heading", text |-> extractText(e), href |-> <<>>,
   el |-> e.el, region |-> getRegion(e), tagName |-> e.tagName]

candidateOf(kind, e) ==
  CASE kind = "link" -> linkCandidate(e)
    [] kind = "button" -> buttonCandidate(e)
    [] OTHER -> headingCandidate(e)

\* the `continue` test of each loop: links and buttons need a text or an href,
\* headings need a text
skipElement(kind, e) ==
  LET c == candidateOf(kind, e) IN
  \/ ~isVisible(e)
  \/ IF kind = "heading" THEN c.text = <<>> ELSE (c.text = <<>> /\ c.href = <<>>)

\* the de-duplication key of pushCandidate
candidateKey(obj) == <<obj.type, "|">> \o obj.href \o <<"|">> \o slice0(obj.text, 60)

\* a pushCandidate that does not consult `seen`
pushCandidateUnchecked(st, obj) ==
  [st EXCEPT !.candidates = Append(@, obj),
             !.seen = @ \cup {candidateKey(obj)}]

\* pushCandidate: st = [candidates, seen, stopped]
pushCandidate(st, obj) ==
  IF candidateKey(obj) \in st.seen THEN st
  ELSE [st EXCEPT !.candidates = Append(@, obj),
                  !.seen = @ \cup {candidateKey(obj)}]

\* one iteration of a for-of loop of getSearchCandidates: `continue` for an
\* element that is skipped, else the push attempt and then the break test
\* candidates.length >= MAX_CANDIDATES (stopped: the loop has hit its break)
scanStep(kind, e, st) ==
  IF st.stopped \/ skipElement(kind, e) THEN st
  ELSE LET st2 == pushCandidate(st, candidateOf(kind, e)) IN
       [st2 EXCEPT !.stopped = Len(st2.candidates) >= MAX_CANDIDATES]

RECURSIVE scanLoop(_, _, _, _, _)
\* one for-of loop of getSearchCandidates over els[lo..hi], in order (the
\* range is walked as its first half followed by its second half)
scanLoop(kind, els, lo, hi, st) ==
  IF lo > hi \/ st.stopped THEN st
  ELSE IF lo = hi THEN scanStep(kind, els[lo], st)
  ELSE LET mid == (lo + hi) \div 2 IN
       scanLoop(kind, els, mid + 1, hi, scanLoop(kind, els, lo, mid, st))

\* the state a loop starts in: the break of the previous loop does not carry over
loopStart(st) == [st EXCEPT !.stopped = FALSE]

getSearchCandidates(doc) ==
  LET s0 == [candidates |-> <<>>, seen |-> {}, stopped |-> FALSE]
      s1 == scanLoop("link", doc.anchors, 1, Len(doc.anchors), s0)
      s2 == scanLoop("button", doc.buttons, 1, Len(doc.buttons), loopStart(s1))
      s3 == scanLoop("heading", doc.heads, 1, Len(doc.heads), loopStart(s2))
  IN s3.candidates

\* ------------------------------------------------------------------------
\* content.js: scoreCandidate
\* ------------------------------------------------------------------------

navKeywords ==
  << <<"p","o","r","t","a","l">>, <<"l","o","g","i","n">>,
     <<"l","o","g"," ","i","n">>, <<"s","i","g","n"," ","i","n">>,
     <<"a","c","c","o","u","n","t">>, <<"d","a","s","h","b","o","a","r","d">>,
     <<"s","t","u","d","e","n","t">>,
     <<"a","d","m","i","s","s","i","o","n","s">>,
     <<"a","p","p","l","y">>, <<"r","e","g","i","s","t","e","r">>,
     <<"r","e","g","i","s","t","r","a","t","i","o","n">>,
     <<"c","a","l","e","n","d","a","r">>, <<"s","c","h","e","d","u","l","e">>,
     <<"b","i","l","l","i","n","g">>, <<"p","a","y","m","e","n","t">>,
     <<"p","a","y">>, <<"c","o","n","t","a","c","t">>,
     <<"s","u","p","p","o","r","t">>, <<"h","e","l","p">>,
     <<"c","o","u","r","s","e","s">>, <<"c","l","a","s","s","e","s">>,
     <<"p","o","r","t","a","l">> >>

genericPhrases ==
  { <<"c","l","i","c","k"," ","h","e","r","e">>,
    <<"r","e","a","d"," ","m","o","r","e">>,
    <<"l","e","a","r","n"," ","m","o","r","e">> }

RECURSIVE sumOver(_, _, _)
\* sum of f[i] for i in lo..hi (the forEach accumulations of scoreCandidate)
sumOver(f, lo, hi) ==
  IF lo > hi THEN 0
  ELSE IF lo = hi THEN f[lo]
  ELSE LET mid == (lo + hi) \div 2 IN sumOver(f, lo, mid) + sumOver(f, mid + 1, hi)

wordScore(text, href, w) ==
  (IF text = w THEN 7 ELSE IF includes(text, w) THEN 5 ELSE 0)
  + (IF includes(href, w) THEN 3 ELSE 0)

keywordScore(text, href, q, kw) ==
  (IF includes(text, kw) \/ includes(href, kw) THEN 2 ELSE 0)
  + (IF includes(q, kw) /\ (includes(text, kw) \/ includes(href, kw)) THEN 3 ELSE 0)

\* structural bonuses in reverse: the footer favoured, the nav penalised
regionBonusReversed(region) ==
  CASE region = "nav" -> 0 - 5
    [] region = "header" -> 4
    [] region = "upper" -> 6
    [] region = "footer" -> 11
    [] OTHER -> 0

\* structural bonuses that treat "upper" like "header"
regionBonusUpperAsHeader(region) ==
  CASE region = "nav" -> 11
    [] region = "header" -> 6
    [] region = "upper" -> 6
    [] region = "footer" -> 0 - 5
    [] OTHER -> 0

regionBonus(region) ==
  CASE region = "nav" -> 11
    [] region = "header" -> 6
    [] region = "upper" -> 4
    [] region = "footer" -> 0 - 5
    [] OTHER -> 0

\* length shaping without the bonus for concise labels
lengthShapingNoBonus(len) ==
  IF len > 70 THEN 0 - 3 ELSE 0

\* length shaping with a penalty of 5 for long labels
lengthShapingHeavier(len) ==
  IF len > 0 /\ len <= 30 THEN 5 ELSE IF len > 70 THEN 0 - 5 ELSE 0

lengthShaping(len) ==
  IF len > 0 /\ len <= 30 THEN 5 ELSE IF len > 70 THEN 0 - 3 ELSE 0

scoreCandidate(candidate, query) ==
  LET q == trim(toLowerCase(query))
      text == toLowerCase(candidate.text)
      href == toLowerCase(candidate.href)
      words == splitWords(q)
  IN IF q = <<>> THEN 0
     ELSE (IF text = q THEN 22 ELSE 0)
        + (IF includes(text, q) THEN 14 ELSE 0)
        + sumOver([i \in 1..Len(words) |-> wordScore(text, href, words[i])],
                  1, Len(words))
        + (IF includes(href, q) THEN 7 ELSE 0)
        + sumOver([i \in 1..Len(navKeywords) |->
                     keywordScore(text, href, q, navKeywords[i])],
                  1, Len(navKeywords))
        + regionBonus(candidate.region)
        + (IF candidate.type = "heading" THEN 3 ELSE 0)
        + lengthShaping(Len(candidate.text))
        - (IF \E g \in genericPhrases : includes(text, g) THEN 2 ELSE 0)

\* ------------------------------------------------------------------------
\* content.js: the sniffr-search handler's ranking
\* ------------------------------------------------------------------------

\* the scored list: candidates with a positive score, in extraction order
scoredFrom(cands, query) ==
  SelectSeq([i \in 1..Len(cands) |->
               [score |-> scoreCandidate(cands[i], query), cand |-> cands[i]]],
            LAMBDA r : r.score > 0)

RECURSIVE sortFrom(_, _)
\* the entries of list whose score is in scores, highest score first, entries
\* of equal score in their order in list
sortFrom(list, scores) ==
  IF scores = {} THEN <<>>
  ELSE LET top == CHOOSE v \in scores : \A w \in scores : w <= v IN
       SelectSeq(list, LAMBDA r : r.score = top) \o sortFrom(list, scores \ {top})

\* scored.sort((a, b) => b.score - a.score): descending by score and, the
\* sort being stable, entries of equal score in their original order
sortByScore(list) == sortFrom(list, { list[i].score : i \in 1..Len(list) })

\* a filter that accepts every scored entry
filterAcceptedAny(list) == SelectSeq(list, LAMBDA r : r.score > 0)

filterAccepted(list) == SelectSeq(list, LAMBDA r : r.score >= MIN_ACCEPT_SCORE)

\* results = scored.filter(r => r.score >= MIN_ACCEPT_SCORE).slice(0, MAX_RESULTS)
rankResults(cands, query) ==
  slice0(filterAccepted(sortByScore(scoredFrom(cands, query))), MAX_RESULTS)

\* the serializable result the handler sends back for one ranked entry
serialResult(r) ==
  [score |-> r.score, type |-> r.cand.type,
   text |-> shortSnippet(r.cand.text, 120), href |-> r.cand.href,
   region |-> r.cand.region, tagName |-> r.cand.tagName]

\* the sniffr-search handler on a document: the response it sends, and the
\* element it highlights (0: none), results[0].element, a node of the document
\* scanned in the same call
searchHandler(d, query) ==
  LET results == IF trim(query) = <<>> THEN <<>>
                 ELSE rankResults(getSearchCandidates(d), trim(query))
  IN [found |-> results # <<>>,
      results |-> [i \in 1..Len(results) |-> serialResult(results[i])],
      target |-> IF results = <<>> THEN 0 ELSE results[1].cand.el]

\* ------------------------------------------------------------------------
\* content.js: highlightElement
\* ------------------------------------------------------------------------

HIGHLIGHT_OUTLINE == "3px solid #ffa424"

\* getAttribute("data-sniffr-prev-outline") of an element without the attribute
NoAttr == [present |-> FALSE, value |-> ""]

\* highlightElement(el) up to setTimeout, on el = [outline, prevAttr]:
\* el.style.outline and the attribute data-sniffr-prev-outline
highlightElement(el) ==
  LET prev == IF el.prevAttr.present THEN el.prevAttr.value ELSE ""
  IN [el EXCEPT !.prevAttr = IF prev = ""
                             THEN [present |-> TRUE, value |-> el.outline]
                             ELSE @,
                !.outline = HIGHLIGHT_OUTLINE]

\* the callback highlightElement passes to setTimeout
revertOutline(el) ==
  IF el.prevAttr.present
  THEN [el EXCEPT !.outline = el.prevAttr.value, !.prevAttr = NoAttr]
  ELSE el

\* ------------------------------------------------------------------------
\* sniffr-proxy.js: the ranking gateway
\* ------------------------------------------------------------------------

MAX_PER_WINDOW == 120

WINDOW_MS == 60 * 1000

CACHE_TTL_MS == 30 * 1000

\* candidates.slice(0, 60) of the cache key, Math.min(candidates.length, 80)
\* of the prompt, slice(0, 240) of a prompt label
KEY_CANDIDATES == 60

PROMPT_CANDIDATES == 80

LABEL_CHARS == 240

\* The remote reply text is a sequence of tokens: braces, keys, number and
\* string values (a number is the fraction n/d in lowest terms), and words of
\* free text.  Separators (quotes, colons, commas) are left out.
Tok(t, s, n, d) == [t |-> t, s |-> s, n |-> n, d |-> d]

LB == Tok("{", "", 0, 1)

RB == Tok("}", "", 0, 1)

KeyTok(name) == Tok("key", name, 0, 1)

NumTok(n, d) == Tok("num", "", n, d)

StrTok(s) == Tok("str", s, 0, 1)

WordTok(s) == Tok("word", s, 0, 1)

Undefined == Tok("undefined", "", 0, 1)

\* parsed = null, or the decoded object (its index and reason members)
Null == [null |-> TRUE, index |-> Undefined, reason |-> Undefined]

\* s.indexOf("{") and s.lastIndexOf("}"), 0-based, -1 when absent
indexOfTok(s, tok) ==
  IF \E i \in 1..Len(s) : s[i] = tok
  THEN (CHOOSE i \in 1..Len(s) : s[i] = tok /\ \A j \in 1..(i-1) : s[j] # tok) - 1
  ELSE 0 - 1

lastIndexOfTok(s, tok) ==
  IF \E i \in 1..Len(s) : s[i] = tok
  THEN (CHOOSE i \in 1..Len(s) : s[i] = tok /\ \A j \in (i+1)..Len(s) : s[j] # tok) - 1
  ELSE 0 - 1

\* the value JSON.parse gives member `name`: the value after its last key
memberOf(inner, name) ==
  IF \E i \in 1..Len(inner) : i % 2 = 1 /\ inner[i] = KeyTok(name)
  THEN inner[(CHOOSE i \in 1..Len(inner) :
                 /\ i % 2 = 1 /\ inner[i] = KeyTok(name)
                 /\ \A j \in (i+1)..Len(inner) : ~(j % 2 = 1 /\ inner[j] = KeyTok(name)))
             + 1]
  ELSE Undefined

\* JSON.parse of a slice: it decodes when the slice is one flat object, a "{",
\* key/value pairs and a "}"; anything else throws (decoded as Null here)
jsonParse(sl) ==
  LET inner == SubSeq(sl, 2, Len(sl) - 1)
      wellFormed ==
        /\ Len(sl) >= 2 /\ sl[1] = LB /\ sl[Len(sl)] = RB
        /\ Len(inner) % 2 = 0
        /\ \A i \in 1..Len(inner) :
             IF i % 2 = 1 THEN inner[i].t = "key" ELSE inner[i].t \in {"num", "str"}
  IN IF wellFormed
     THEN [null |-> FALSE, index |-> memberOf(inner, "index"),
           reason |-> memberOf(inner, "reason")]
     ELSE Null

\* handler lines 138-149: parse the JSON substring of the assistant text
parseAssistant(s) ==
  LET start == indexOfTok(s, LB)
      end == lastIndexOfTok(s, RB)
  IN IF start >= 0 /\ end >= start THEN jsonParse(SubSeq(s, start + 1, end + 1))
     ELSE Null

\* a cacheGet that never lets an entry expire
cacheGetNoExpiry(cache, key, t) ==
  [hit |-> key \in DOMAIN cache, CACHE |-> cache]

\* cacheGet: [hit, CACHE]; an expired entry is deleted
cacheGet(cache, key, t) ==
  IF key \notin DOMAIN cache THEN [hit |-> FALSE, CACHE |-> cache]
  ELSE IF cache[key].expiresAt < t
       THEN [hit |-> FALSE, CACHE |-> [k \in DOMAIN cache \ {key} |-> cache[k]]]
       ELSE [hit |-> TRUE, CACHE |-> cache]

\* cacheSet
cacheSet(cache, key, value, t, ttl) ==
  (key :> [value |-> value, expiresAt |-> t + ttl]) @@ cache

\* a rateCheck that rejects only above the ceiling (count > MAX_PER_WINDOW)
rateCheckAboveCeiling(rate, ip, t) ==
  IF ip \notin DOMAIN rate \/ rate[ip].resetAt < t
  THEN [ok |-> TRUE, remaining |-> MAX_PER_WINDOW - 1, resetAt |-> t + WINDOW_MS,
        RATE |-> (ip :> [count |-> 1, resetAt |-> t + WINDOW_MS]) @@ rate]
  ELSE IF rate[ip].count > MAX_PER_WINDOW
       THEN [ok |-> FALSE, remaining |-> 0, resetAt |-> rate[ip].resetAt, RATE |-> rate]
       ELSE [ok |-> TRUE, remaining |-> MAX_PER_WINDOW - (rate[ip].count + 1),
             resetAt |-> rate[ip].resetAt,
             RATE |-> [rate EXCEPT ![ip].count = @ + 1]]

\* a rateCheck that counts the requests it rejects too
rateCheckCountsRejected(rate, ip, t) ==
  IF ip \notin DOMAIN rate \/ rate[ip].resetAt < t
  THEN [ok |-> TRUE, remaining |-> MAX_PER_WINDOW - 1, resetAt |-> t + WINDOW_MS,
        RATE |-> (ip :> [count |-> 1, resetAt |-> t + WINDOW_MS]) @@ rate]
  ELSE IF rate[ip].count >= MAX_PER_WINDOW
       THEN [ok |-> FALSE, remaining |-> 0, resetAt |-> rate[ip].resetAt,
             RATE |-> [rate EXCEPT ![ip].count = @ + 1]]
       ELSE [ok |-> TRUE, remaining |-> MAX_PER_WINDOW - (rate[ip].count + 1),
             resetAt |-> rate[ip].resetAt,
             RATE |-> [rate EXCEPT ![ip].count = @ + 1]]

\* rateCheck: [ok, remaining, resetAt, RATE]
rateCheck(rate, ip, t) ==
  IF ip \notin DOMAIN rate \/ rate[ip].resetAt < t
  THEN [ok |-> TRUE, remaining |-> MAX_PER_WINDOW - 1, resetAt |-> t + WINDOW_MS,
        RATE |-> (ip :> [count |-> 1, resetAt |-> t + WINDOW_MS]) @@ rate]
  ELSE IF rate[ip].count >= MAX_PER_WINDOW
       THEN [ok |-> FALSE, remaining |-> 0, resetAt |-> rate[ip].resetAt, RATE |-> rate]
       ELSE [ok |-> TRUE, remaining |-> MAX_PER_WINDOW - (rate[ip].count + 1),
             resetAt |-> rate[ip].resetAt,
             RATE |-> [rate EXCEPT ![ip].count = @ + 1]]

\* Math.ceil(ms / 1000)
ceilSeconds(ms) == IF ms % 1000 = 0 THEN ms \div 1000 ELSE (ms \div 1000) + 1

replaceNewlines(s) == [i \in 1..Len(s) |-> IF s[i] = "\n" THEN " " ELSE s[i]]

\* the cache key: JSON.stringify({q, c: candidates.slice(0,60).map(...)})
cacheKey(query, candidates) ==
  [q |-> query,
   c |-> [i \in 1..Len(slice0(candidates, KEY_CANDIDATES)) |->
            [t |-> candidates[i].text, h |-> candidates[i].href]]]

\* the enumerated prompt: the query line and one line per listed candidate
\* (index | type | label | href); line i of the sequence carries index i-1
NO_HREF == <<"(no href)">>

promptLine(c) ==
  [type |-> c.type, label |-> slice0(replaceNewlines(c.text), LABEL_CHARS),
   href |-> IF c.href = <<>> THEN NO_HREF ELSE c.href]

buildPrompt(query, candidates) ==
  [query |-> replaceNewlines(query),
   lines |-> [i \in 1..Len(slice0(candidates, PROMPT_CANDIDATES)) |->
                promptLine(candidates[i])]]

NoPrompt == [query |-> <<>>, lines |-> <<>>]

\* an HTTP response of the handler; `prompt` records the prompt of the remote
\* call that produced the judgment (history, not part of the JSON body)
Response(status, ok, cached, raw, parsed, retryAfter, prompt) ==
  [status |-> status, ok |-> ok, cached |-> cached, raw |-> raw,
   parsed |-> parsed, retryAfter |-> retryAfter, prompt |-> prompt]

ErrorResponse(status, retryAfter) ==
  Response(status, FALSE, FALSE, <<>>, Null, retryAfter, NoPrompt)

\* a handler that looks the request up in the cache before it checks the rate
handlerEnterCacheFirst(req, rate, cache, t) ==
  LET rc == rateCheck(rate, req.ip, t)
      key == cacheKey(req.query, req.candidates)
      cg == cacheGet(cache, key, t)
      out(done, resp, r, c) ==
        [done |-> done, response |-> resp, RATE |-> r, CACHE |-> c, key |-> key,
         prompt |-> buildPrompt(req.query, req.candidates)]
  IN IF req.method # "POST" THEN out(TRUE, ErrorResponse(405, 0), rate, cache)
     ELSE IF req.query # <<>> /\ req.isArray /\ cg.hit
          THEN out(TRUE,
                   Response(200, TRUE, TRUE, cg.CACHE[key].value.raw,
                            cg.CACHE[key].value.parsed, 0,
                            cg.CACHE[key].value.prompt),
                   rate, cg.CACHE)
     ELSE IF ~rc.ok
          THEN out(TRUE, ErrorResponse(429, ceilSeconds(rc.resetAt - t)), rc.RATE, cache)
     ELSE IF req.query = <<>> \/ ~req.isArray
          THEN out(TRUE, ErrorResponse(400, 0), rc.RATE, cache)
     ELSE out(FALSE, ErrorResponse(0, 0), rc.RATE, cg.CACHE)

\* handler, up to its first suspension point (await callOpenAI) or its return:
\* [done, response, RATE, CACHE, key, prompt]
handlerEnter(req, rate, cache, t) ==
  LET rc == rateCheck(rate, req.ip, t)
      key == cacheKey(req.query, req.candidates)
      cg == cacheGet(cache, key, t)
      out(done, resp, r, c) ==
        [done |-> done, response |-> resp, RATE |-> r, CACHE |-> c, key |-> key,
         prompt |-> buildPrompt(req.query, req.candidates)]
  IN IF req.method # "POST" THEN out(TRUE, ErrorResponse(405, 0), rate, cache)
     ELSE IF ~rc.ok
          THEN out(TRUE, ErrorResponse(429, ceilSeconds(rc.resetAt - t)), rc.RATE, cache)
     ELSE IF req.query = <<>> \/ ~req.isArray
          THEN out(TRUE, ErrorResponse(400, 0), rc.RATE, cache)
     ELSE IF cg.hit
          THEN out(TRUE,
                   Response(200, TRUE, TRUE, cg.CACHE[key].value.raw,
                            cg.CACHE[key].value.parsed, 0,
                            cg.CACHE[key].value.prompt),
                   rc.RATE, cg.CACHE)
     ELSE out(FALSE, ErrorResponse(0, 0), rc.RATE, cg.CACHE)

\* a handler that stores an empty reply when the remote call fails
handlerResumeCachesFailure(h, call, cache, t) ==
  IF call.throws
  THEN [response |-> ErrorResponse(500, 0),
        CACHE |-> cacheSet(cache, h.key, [raw |-> <<>>, parsed |-> Null, prompt |-> h.prompt],
                           t, CACHE_TTL_MS)]
  ELSE LET parsed == parseAssistant(call.raw)
           result == [raw |-> call.raw, parsed |-> parsed, prompt |-> h.prompt]
       IN [response |-> Response(200, TRUE, FALSE, call.raw, parsed, 0, h.prompt),
           CACHE |-> cacheSet(cache, h.key, result, t, CACHE_TTL_MS)]

\* a handler that stores a reply only when it decoded
handlerResumeSkipsNull(h, call, cache, t) ==
  IF call.throws
  THEN [response |-> ErrorResponse(500, 0), CACHE |-> cache]
  ELSE LET parsed == parseAssistant(call.raw)
           result == [raw |-> call.raw, parsed |-> parsed, prompt |-> h.prompt]
       IN [response |-> Response(200, TRUE, FALSE, call.raw, parsed, 0, h.prompt),
           CACHE |-> IF parsed = Null THEN cache
                     ELSE cacheSet(cache, h.key, result, t, CACHE_TTL_MS)]

\* handler, from the return of callOpenAI to its response:
\* call = [throws, raw]; h = the suspended handler [req, key, prompt]
handlerResume(h, call, cache, t) ==
  IF call.throws
  THEN [response |-> ErrorResponse(500, 0), CACHE |-> cache]
  ELSE LET parsed == parseAssistant(call.raw)
           result == [raw |-> call.raw, parsed |-> parsed, prompt |-> h.prompt]
       IN [response |-> Response(200, TRUE, FALSE, call.raw, parsed, 0, h.prompt),
           CACHE |-> cacheSet(cache, h.key, result, t, CACHE_TTL_MS)]

\* ------------------------------------------------------------------------
\* Inputs: documents, queries, peer requests and remote replies
\* ------------------------------------------------------------------------

\* how far the clock may advance, and how many handlers may be suspended in
\* the remote call at once
MaxTicks == 3

MaxInflight == 2

\* how many requests other clients post while a query is in progress
MaxPeers == 1

\* how many requests the gateway serves when it is exercised alone
MaxPosts == 4

\* how many requests short of MAX_PER_WINDOW a busy client's window starts
Headroom == 2

\* one step of the clock: half a rate window, the cache TTL
TickMs == CACHE_TTL_MS

Digits == <<"0","1","2","3","4","5","6","7","8","9">>

Element(el, tagName, text, href, landmark, top) ==
  [el |-> el, tagName |-> tagName, text |-> text, href |-> href, attrHref |-> href,
   landmark |-> landmark, top |-> top, shown |-> TRUE]

T_Login == <<"L","o","g","i","n">>

T_Logout == <<"L","o","g","o","u","t">>

T_About == <<"A","b","o","u","t"," ","U","s">>

T_Welcome == <<"W","e","l","c","o","m","e">>

H_login == <<"/","l","o","g","i","n">>

H_portal == <<"/","p","o","r","t","a","l">>

H_logout == <<"/","l","o","g","o","u","t">>

H_about == <<"/","a","b","o","u","t">>

\* a page with two links of the same label (a body link before a nav link),
\* a hidden link, a footer link and a heading
DocSmall ==
  [anchors |-> << Element(1, "a", T_Login, H_portal, "", 60),
                  Element(2, "a", T_Login, H_login, "nav", 5),
                  [Element(3, "a", T_Logout, H_logout, "nav", 5) EXCEPT !.shown = FALSE],
                  Element(4, "a", T_About, H_about, "footer", 95) >>,
   buttons |-> <<>>,
   heads |-> << Element(5, "h1", <<" ">> \o T_Welcome, <<>>, "", 10) >>]

\* a page with nothing to collect
DocEmpty == [anchors |-> <<>>, buttons |-> <<>>, heads |-> <<>>]

\* a filler link "Item dd" of a long page
fillerLink(i) ==
  Element(100 + i, "a",
          <<"I","t","e","m"," ", Digits[(i \div 10) + 1], Digits[(i % 10) + 1]>>,
          <<"/","i","/", Digits[(i \div 10) + 1], Digits[(i % 10) + 1]>>, "", 60)

\* two long pages with the same first 60 links; link 61 differs
DocLongA ==
  [anchors |-> [i \in 1..(KEY_CANDIDATES + 1) |->
                  IF i <= KEY_CANDIDATES THEN fillerLink(i)
                  ELSE Element(100 + i, "a", T_Login, H_login, "nav", 5)],
   buttons |-> <<>>, heads |-> <<>>]

DocLongB ==
  [anchors |-> [i \in 1..(KEY_CANDIDATES + 1) |->
                  IF i <= KEY_CANDIDATES THEN fillerLink(i)
                  ELSE Element(200 + i, "a", T_Logout, H_logout, "nav", 5)],
   buttons |-> <<>>, heads |-> <<>>]

\* a page with more links than the popup sends to the remote stage: the link
\* after the first PROMPT_CANDIDATES fillers is the "Login" of the nav
DocWide ==
  [anchors |-> [i \in 1..(PROMPT_CANDIDATES + 1) |->
                  IF i <= PROMPT_CANDIDATES THEN fillerLink(i)
                  ELSE Element(300 + i, "a", T_Login, H_login, "nav", 5)],
   buttons |-> <<>>, heads |-> <<>>]

\* the documents the active tab may show
Docs == <<DocSmall, DocEmpty, DocLongB, DocWide>>

\* where DocWide is in Docs
WidePage == 4

Q_login == <<"l","o","g","i","n">>

\* what the user may type: a query with surrounding blanks, and a blank one
UserInputs == { <<" ">> \o Q_login \o <<" ">>, <<" ", " ">> }

\* the calls of performSearch: the query under study and, where two queries
\* overlap, a second one
QueryIds == {1, 2}

FirstQuery == 1

ClientIp == "203.0.113.7"

\* another client's address
OtherIp == "198.51.100.9"

Req(origin, ip, method, query, candidates, isArray) ==
  [origin |-> origin, ip |-> ip, method |-> method, query |-> query,
   candidates |-> candidates, isArray |-> isArray]

\* requests of other clients behind the same address: the same query on a page
\* that shares its first 60 links with DocLongB
PeerRequests ==
  { Req(0, ClientIp, "POST", Q_login, getSearchCandidates(DocLongA), TRUE) }

\* requests to the gateway alone: a well-formed one, a GET, malformed bodies,
\* and a malformed one from another client
GatewayRequests ==
  { Req(0, ClientIp, "POST", Q_login, getSearchCandidates(DocSmall), TRUE),
    Req(0, ClientIp, "GET", Q_login, getSearchCandidates(DocSmall), TRUE),
    Req(0, ClientIp, "POST", <<>>, getSearchCandidates(DocSmall), TRUE),
    Req(0, ClientIp, "POST", Q_login, <<>>, FALSE),
    Req(0, OtherIp, "POST", <<>>, <<>>, TRUE) }

indexReply(n, d) ==
  << LB, KeyTok("index"), NumTok(n, d), KeyTok("reason"), StrTok("because"), RB >>

\* assistant texts of the remote call: a judgment for index 1, for index 60,
\* for -1, for 1.5, a judgment wrapped in prose, and a reply with no JSON
\* object
Replies ==
  { indexReply(1, 1), indexReply(KEY_CANDIDATES, 1), indexReply(0 - 1, 1),
    indexReply(3, 2),
    <<WordTok("Sure")>> \o indexReply(0, 1) \o <<WordTok("done")>>,
    <<WordTok("sorry")>> }

\* what `await callOpenAI(prompt)` may do: throw (missing key, network error,
\* non-2xx status) or return the assistant text
CallOutcomes ==
  { [throws |-> TRUE, raw |-> <<>>] } \cup { [throws |-> FALSE, raw |-> r] : r \in Replies }

\* the outcomes used when the gateway is exercised alone
GatewayCallOutcomes ==
  { [throws |-> TRUE, raw |-> <<>>],
    [throws |-> FALSE, raw |-> indexReply(1, 1)],
    [throws |-> FALSE, raw |-> <<WordTok("sorry")>>],
    [throws |-> FALSE, raw |-> <<LB, WordTok("maybe"), RB>>] }

\* ------------------------------------------------------------------------
\* State
\* ------------------------------------------------------------------------

VARIABLES
  now,       \* Date.now() of the gateway
  RATE,      \* sniffr-proxy.js RATE: ip -> [count, resetAt]
  CACHE,     \* sniffr-proxy.js CACHE: key -> [value, expiresAt]
  inflight,  \* handlers suspended in `await callOpenAI`: [req, key, prompt, ...]
  res,       \* the last response written to a client other than the relay
  hist,      \* history of the gateway's traffic (see NoHistory)
  doc,       \* the document of the active tab (an index of Docs)
  peers,     \* how many requests clients other than the popup have posted
  hl,        \* per query: the element the last sniffr-search for it highlighted
  pc,        \* per query: the await performSearch is suspended at
  text,      \* per query: performSearch's trimmed query
  cands,     \* per query: performSearch's truncated candidates
  best,      \* per query: performSearch's best (the remote winner)
  reason,    \* per query: parsed.reason of the honoured judgment
  tabChan,   \* per query: the last chrome.tabs.sendMessage exchange
  bgChan,    \* per query: the last chrome.runtime.sendMessage exchange
  msgs,      \* per query: the sniffr bubbles addMessage appended
  probe,     \* the last call of a function of content.js on its own: inputs and result
  style      \* the inline outline of one element of the page and its revert timers

vars == <<now, RATE, CACHE, inflight, res, hist, doc, peers, hl, pc, text, cands, best,
          reason, tabChan, bgChan, msgs, probe, style>>

gatewayVars == <<now, RATE, CACHE, inflight, res, hist>>

popupVars == <<pc, text, cands, best, reason, msgs>>

envVars == <<doc, peers, hl>>

NoResponse == ErrorResponse(0, 0)

NoCandidate ==
  [type |-> "", text |-> <<>>, href |-> <<>>, el |-> 0, region |-> "", tagName |-> ""]

\* History of the gateway's traffic, kept beside the program's own maps:
\*   win     ip -> the window its POSTs opened: when the first of them arrived
\*           (start), how many have arrived since (posts, counted up to
\*           MAX_PER_WINDOW + 1), whether the last one was answered 429
\*           (limited), how many were not answered 429 (admitted), and
\*           whether the window before it was used up (prevFull)
\*   fillAt  key -> when a remote call for the key last returned a reply
\*   fillRaw key -> the assistant text of that reply
\*   served  the last response written: its status and cached flag, whether a
\*           remote call was made for it (remote), and whether at the arrival
\*           of its request a reply for its key was at most CACHE_TTL_MS old
\*           (fresh) or older (expired), the cache key of its request (key)
\*           and, if a remote call was made, what the call did (call), and
\*           the client address of its request (ip)
\*   hadHit  whether a cached:true response has been written
NoCall == [throws |-> FALSE, raw |-> <<>>]

NoServed ==
  [status |-> 0, cached |-> FALSE, remote |-> FALSE, fresh |-> FALSE, expired |-> FALSE,
   key |-> cacheKey(<<>>, <<>>), call |-> NoCall, ip |-> ""]

NoHistory ==
  [win |-> <<>>, fillAt |-> <<>>, fillRaw |-> <<>>, served |-> NoServed, hadHit |-> FALSE]

\* the window a POST of ip arriving at t falls in
observeWindow(win, ip, t, limited) ==
  IF ip \notin DOMAIN win \/ t > win[ip].start + WINDOW_MS
  THEN (ip :> [start |-> t, posts |-> 1, limited |-> limited,
               admitted |-> IF limited THEN 0 ELSE 1,
               prevFull |-> ip \in DOMAIN win /\ win[ip].posts > MAX_PER_WINDOW]) @@ win
  ELSE [win EXCEPT ![ip].posts = IF @ > MAX_PER_WINDOW THEN @ ELSE @ + 1,
                   ![ip].admitted = IF limited THEN @ ELSE @ + 1,
                   ![ip].limited = limited]

isFresh(fillAt, key, t) == key \in DOMAIN fillAt /\ t <= fillAt[key] + CACHE_TTL_MS

isExpired(fillAt, key, t) == key \in DOMAIN fillAt /\ t > fillAt[key] + CACHE_TTL_MS

\* a chrome.tabs.sendMessage exchange: st is "none", "req" (sent, not yet
\* answered), "resp" (callback called with a response) or "err" (callback
\* called with chrome.runtime.lastError set); listener tells whether a listener
\* of the tab received the message
TabMsg(st, type, query, found, results, isList, candidates, listener) ==
  [st |-> st, type |-> type, query |-> query, found |-> found, results |-> results,
   isList |-> isList, candidates |-> candidates, listener |-> listener]

TabIdle == TabMsg("none", "", <<>>, FALSE, <<>>, FALSE, <<>>, FALSE)

TabRequest(type, query) == TabMsg("req", type, query, FALSE, <<>>, FALSE, <<>>, FALSE)

\* a chrome.runtime.sendMessage exchange with the relay: st is "none", "req",
\* "fetching" (the relay awaits fetch), "resp", "err", or "pending" (the fetch
\* never settles, so sendResponse is never called)
BgMsg(st, ok, server) == [st |-> st, ok |-> ok, server |-> server]

BgIdle == BgMsg("none", FALSE, NoResponse)

\* a sniffr bubble
Msg(kind, results, winner) == [kind |-> kind, results |-> results, winner |-> winner]

\* the regions getRegion tells apart
Regions == {"nav", "header", "upper", "body", "footer"}

\* a call of scoreCandidate, of the sniffr-search ranking or of
\* getSearchCandidates on its own:
\*   op        "none", "score", "search" or "scan"
\*   query     the query argument
\*   cand      the candidate argument of scoreCandidate
\*   score     what scoreCandidate returned for it
\*   byRegion  what it returns for the same candidate placed in each region
\*   page      the document scanned (an index of Pages)
\*   ranked    the handler's results (with their elements)
\*   response  what the handler passed to sendResponse
\*   count     the length of what getSearchCandidates returned
\* an element of the freshly loaded page: no inline outline, never highlighted
\*   el      its style.outline and its data-sniffr-prev-outline attribute
\*   timers  the revert timers of highlightElement that have not fired yet
\*   calls   how often highlightElement was called on it
\*   before  its outline before the first of these calls
PlainStyle ==
  [el |-> [outline |-> "", prevAttr |-> NoAttr], timers |-> 0, calls |-> 0, before |-> ""]

NoProbe ==
  [op |-> "none", query |-> <<>>, cand |-> NoCandidate, score |-> 0,
   byRegion |-> [r \in Regions |-> 0], page |-> 0, ranked |-> <<>>,
   response |-> [found |-> FALSE, results |-> <<>>], count |-> 0,
   others |-> 0, again |-> 0, list |-> <<>>]

\* the rate window of a client that has posted n requests with empty queries
\* at time 0 (each is counted by rateCheck, answered 400 and leaves CACHE alone)
busyRate(n) == (ClientIp :> [count |-> n, resetAt |-> WINDOW_MS])

busyWindow(n) ==
  (ClientIp :> [start |-> 0, posts |-> n, limited |-> FALSE, admitted |-> n,
                prevFull |-> FALSE])

\* the client's rate window when a query starts: unused, or used up by
\* MAX_PER_WINDOW earlier requests in the current window
RateStates == { <<>>, busyRate(MAX_PER_WINDOW) }

\* the state after construction, the active tab showing one of docs
InitOn(docs) ==
  /\ now = 0
  /\ RATE \in RateStates
  /\ CACHE = <<>>
  /\ inflight = <<>>
  /\ res = NoResponse
  /\ hist = [NoHistory EXCEPT !.win = IF RATE = <<>> THEN <<>>
                                      ELSE busyWindow(MAX_PER_WINDOW)]
  /\ doc \in docs
  /\ peers = 0
  /\ hl = [q \in QueryIds |-> 0]
  /\ pc = [q \in QueryIds |-> "idle"]
  /\ text = [q \in QueryIds |-> <<>>]
  /\ cands = [q \in QueryIds |-> <<>>]
  /\ best = [q \in QueryIds |-> NoCandidate]
  /\ reason = [q \in QueryIds |-> Undefined]
  /\ tabChan = [q \in QueryIds |-> TabIdle]
  /\ bgChan = [q \in QueryIds |-> BgIdle]
  /\ msgs = [q \in QueryIds |-> <<>>]
  /\ probe = NoProbe
  /\ style = PlainStyle

Init == InitOn(DOMAIN Docs \ {WidePage})

\* ------------------------------------------------------------------------
\* Gateway actions
\* ------------------------------------------------------------------------

removeAt(s, i) == SubSeq(s, 1, i - 1) \o SubSeq(s, i + 1, Len(s))

\* a response of the gateway reaches its client: the relay's fetch resolves
\* and the relay calls sendResponse({ok: true, server: resp}), unless its fetch
\* has failed in the meantime; any other client's response is kept in res
deliver(origin, response) ==
  IF origin = 0 THEN /\ res' = response
                     /\ UNCHANGED bgChan
  ELSE /\ bgChan' = IF bgChan[origin].st \in {"req", "fetching"}
                    THEN [bgChan EXCEPT ![origin] = BgMsg("resp", TRUE, response)]
                    ELSE bgChan
       /\ UNCHANGED res

\* the handler runs for a request, to its response or to `await callOpenAI`
HandleRequest(req) ==
  LET h == handlerEnter(req, RATE, CACHE, now)
      win == IF req.method = "POST"
             THEN observeWindow(hist.win, req.ip, now, h.done /\ h.response.status = 429)
             ELSE hist.win
      fresh == isFresh(hist.fillAt, h.key, now)
      expired == isExpired(hist.fillAt, h.key, now)
  IN
  /\ RATE' = h.RATE
  /\ CACHE' = h.CACHE
  /\ IF h.done
     THEN /\ deliver(req.origin, h.response)
          /\ hist' = [hist EXCEPT !.win = win,
                        !.served = [status |-> h.response.status,
                                    cached |-> h.response.cached, remote |-> FALSE,
                                    fresh |-> fresh, expired |-> expired,
                                    key |-> h.key, call |-> NoCall, ip |-> req.ip],
                        !.hadHit = @ \/ h.response.cached]
          /\ UNCHANGED inflight
     ELSE /\ Len(inflight) < MaxInflight
          /\ inflight' = Append(inflight, [req |-> req, key |-> h.key, prompt |-> h.prompt,
                                           fresh |-> fresh, expired |-> expired])
          /\ hist' = [hist EXCEPT !.win = win]
          /\ IF req.origin = 0 THEN UNCHANGED bgChan
             ELSE bgChan' = [bgChan EXCEPT ![req.origin] = BgMsg("fetching", FALSE, NoResponse)]
          /\ UNCHANGED res

\* a client other than the relay posts to the gateway
DirectPost(req) ==
  /\ peers < MaxPosts
  /\ peers' = peers + 1
  /\ HandleRequest(req)
  /\ UNCHANGED <<probe, style, now, doc, hl, popupVars, tabChan>>

\* another client behind the same address posts while a query is in progress
PeerPost(req) ==
  /\ peers < MaxPeers
  /\ peers' = peers + 1
  /\ HandleRequest(req)
  /\ UNCHANGED <<probe, style, now, doc, hl, popupVars, tabChan>>

\* callOpenAI settles for the i-th suspended handler
OpenAIReturns(i, call) ==
  /\ i \in 1..Len(inflight)
  /\ LET h == inflight[i]
         r == handlerResume(h, call, CACHE, now)
     IN /\ CACHE' = r.CACHE
        /\ deliver(h.req.origin, r.response)
        /\ hist' = [hist EXCEPT
                      !.fillAt = IF call.throws THEN @ ELSE (h.key :> now) @@ @,
                      !.fillRaw = IF call.throws THEN @ ELSE (h.key :> call.raw) @@ @,
                      !.served = [status |-> r.response.status,
                                  cached |-> r.response.cached, remote |-> TRUE,
                                  fresh |-> h.fresh, expired |-> h.expired,
                                  key |-> h.key, call |-> call, ip |-> h.req.ip],
                      !.hadHit = @ \/ r.response.cached]
  /\ inflight' = removeAt(inflight, i)
  /\ UNCHANGED <<probe, style, now, RATE, envVars, popupVars, tabChan>>

\* time passes
Tick ==
  /\ now < MaxTicks * TickMs
  /\ now' = now + TickMs
  /\ UNCHANGED <<probe, style, RATE, CACHE, inflight, res, hist, envVars, popupVars, tabChan, bgChan>>

\* the gateway alone, serving HTTP clients while time passes (no tab is open:
\* the extension's variables stay as constructed)
InitGateway ==
  /\ now = 0
  /\ RATE \in { <<>>, busyRate(MAX_PER_WINDOW - Headroom) }
  /\ CACHE = <<>>
  /\ inflight = <<>>
  /\ res = NoResponse
  /\ hist = [NoHistory EXCEPT !.win = IF RATE = <<>> THEN <<>>
                                      ELSE busyWindow(MAX_PER_WINDOW - Headroom)]
  /\ doc = 1
  /\ peers = 0
  /\ hl = [q \in QueryIds |-> 0]
  /\ pc = [q \in QueryIds |-> "idle"]
  /\ text = [q \in QueryIds |-> <<>>]
  /\ cands = [q \in QueryIds |-> <<>>]
  /\ best = [q \in QueryIds |-> NoCandidate]
  /\ reason = [q \in QueryIds |-> Undefined]
  /\ tabChan = [q \in QueryIds |-> TabIdle]
  /\ bgChan = [q \in QueryIds |-> BgIdle]
  /\ msgs = [q \in QueryIds |-> <<>>]
  /\ probe = NoProbe
  /\ style = PlainStyle

NextGateway ==
  \/ \E req \in GatewayRequests : DirectPost(req)
  \/ \E i \in 1..MaxInflight, call \in GatewayCallOutcomes : OpenAIReturns(i, call)
  \/ Tick

SpecGateway == InitGateway /\ [][NextGateway]_vars

\* ------------------------------------------------------------------------
\* content.js: the in-page message listener
\* ------------------------------------------------------------------------

\* a listener that scores only the candidates the remote stage was sent
ContentOnSearchTruncated(q) ==
  /\ tabChan[q].st = "req"
  /\ tabChan[q].type = "sniffr-search"
  /\ LET results == IF trim(tabChan[q].query) = <<>> THEN <<>>
                    ELSE rankResults(slice0(getSearchCandidates(Docs[doc]),
                                            PROMPT_CANDIDATES),
                                     trim(tabChan[q].query))
     IN
     /\ tabChan' = [tabChan EXCEPT ![q] =
                      TabMsg("resp", "sniffr-search", tabChan[q].query,
                             results # <<>>,
                             [i \in 1..Len(results) |-> serialResult(results[i])],
                             FALSE, <<>>, TRUE)]
     /\ hl' = [hl EXCEPT ![q] = IF results = <<>> THEN 0 ELSE results[1].cand.el]
  /\ UNCHANGED <<probe, style, gatewayVars, doc, peers, popupVars, bgChan>>

\* the listener runs for a sniffr-search message: it scans, scores, highlights
\* the best result and calls sendResponse before it returns
ContentOnSearch(q) ==
  /\ tabChan[q].st = "req"
  /\ tabChan[q].type = "sniffr-search"
  /\ LET r == searchHandler(Docs[doc], tabChan[q].query) IN
     /\ tabChan' = [tabChan EXCEPT ![q] =
                      TabMsg("resp", "sniffr-search", tabChan[q].query, r.found,
                             r.results, FALSE, <<>>, TRUE)]
     /\ hl' = [hl EXCEPT ![q] = r.target]
  /\ UNCHANGED <<probe, style, gatewayVars, doc, peers, popupVars, bgChan>>

\* the listener runs for any other message (line 217): it returns undefined
\* and never calls sendResponse, so the port closes; the sender's callback
\* runs with lastError set, or (on runtimes that report no error for an
\* unanswered message) with an undefined response
ContentOnOther(q, asError) ==
  /\ tabChan[q].st = "req"
  /\ tabChan[q].type # "sniffr-search"
  /\ tabChan' = [tabChan EXCEPT ![q] =
                   TabMsg(IF asError THEN "err" ELSE "resp", tabChan[q].type,
                          tabChan[q].query, FALSE, <<>>, FALSE, <<>>, TRUE)]
  /\ UNCHANGED <<probe, style, gatewayVars, envVars, popupVars, bgChan>>

\* an in-page collaborator driven in candidate-collection mode answers with
\* the raw candidate list
CollectorOnCandidates(q) ==
  /\ tabChan[q].st = "req"
  /\ tabChan[q].type = "sniffr-candidates"
  /\ tabChan' = [tabChan EXCEPT ![q] =
                   TabMsg("resp", "sniffr-candidates", <<>>, FALSE, <<>>, TRUE,
                          getSearchCandidates(Docs[doc]), TRUE)]
  /\ UNCHANGED <<probe, style, gatewayVars, envVars, popupVars, bgChan>>

\* the tab has no listener (the page blocks extensions): sendMessageToTab's
\* callback runs with lastError set
TabUnreachable(q) ==
  /\ tabChan[q].st = "req"
  /\ tabChan' = [tabChan EXCEPT ![q] =
                   TabMsg("err", tabChan[q].type, tabChan[q].query, FALSE, <<>>, FALSE,
                          <<>>, FALSE)]
  /\ UNCHANGED <<probe, style, gatewayVars, envVars, popupVars, bgChan>>

\* ------------------------------------------------------------------------
\* background.js: the relay
\* ------------------------------------------------------------------------

\* the server-rank listener calls proxyToServer and the POST reaches the
\* gateway, whose handler runs to its response or to its remote call
RelayFetch(q) ==
  /\ bgChan[q].st = "req"
  /\ HandleRequest(Req(q, ClientIp, "POST", text[q], cands[q], TRUE))
  /\ UNCHANGED <<probe, style, now, envVars, popupVars, tabChan>>

\* fetch or resp.json() throws (the gateway cannot be reached, the connection
\* drops, the body is not JSON): the relay calls sendResponse({ok: false})
RelayFetchFails(q) ==
  /\ bgChan[q].st \in {"req", "fetching"}
  /\ bgChan' = [bgChan EXCEPT ![q] = BgMsg("resp", FALSE, NoResponse)]
  /\ UNCHANGED <<probe, style, gatewayVars, envVars, popupVars, tabChan>>

\* the relay cannot be reached: sendMessageToBackground's callback runs with
\* lastError set
RelayUnreachable(q) ==
  /\ bgChan[q].st = "req"
  /\ bgChan' = [bgChan EXCEPT ![q] = BgMsg("err", FALSE, NoResponse)]
  /\ UNCHANGED <<probe, style, gatewayVars, envVars, popupVars, tabChan>>

\* the relay's fetch never settles (proxyToServer sets no timeout), so the
\* relay never calls sendResponse
RelayFetchNeverSettles(q) ==
  /\ bgChan[q].st \in {"req", "fetching"}
  /\ bgChan' = [bgChan EXCEPT ![q] = BgMsg("pending", FALSE, NoResponse)]
  /\ UNCHANGED <<probe, style, gatewayVars, envVars, popupVars, tabChan>>

\* ------------------------------------------------------------------------
\* popup.js: performSearch
\* ------------------------------------------------------------------------

\* a wait that also ends while the request is still on its way
settledOrSent(chan) == chan.st \in {"resp", "err", "req", "fetching"}

\* the promise of sendMessageToTab / sendMessageToBackground has settled
settled(chan) == chan.st \in {"resp", "err"}

\* the normalisation performSearch applies to a local-scoring response before
\* renderResults (the legacy single-object shape has no `results` list)
normalize(fallback) ==
  IF fallback.st = "resp" /\ fallback.found
  THEN [found |-> TRUE, results |-> fallback.results]
  ELSE [found |-> FALSE, results |-> <<>>]

\* renderResults: the bubble it appends
renderResults(response) ==
  IF ~response.found \/ Len(response.results) = 0
  THEN Msg("notfound", <<>>, NoCandidate)
  ELSE Msg("results", response.results, NoCandidate)

\* a test of line 284 without the upper bound
indexHonouredNoUpperBound(parsed, candidates) ==
  /\ ~parsed.null
  /\ parsed.index.t = "num"
  /\ parsed.index.n >= 0

\* a test of line 284 that lets -1 through
indexHonouredFromMinusOne(parsed, candidates) ==
  /\ ~parsed.null
  /\ parsed.index.t = "num"
  /\ parsed.index.n >= 0 - parsed.index.d
  /\ parsed.index.n < Len(candidates) * parsed.index.d

\* the test of line 284 on the parsed judgment
indexHonoured(parsed, candidates) ==
  /\ ~parsed.null
  /\ parsed.index.t = "num"
  /\ parsed.index.n >= 0
  /\ parsed.index.n < Len(candidates) * parsed.index.d

\* candidates[parsed.index] is an element of the array only for an integer
\* index inside it; otherwise it is undefined
indexDefined(index, candidates) ==
  index.d = 1 /\ (index.n + 1) \in 1..Len(candidates)

\* a test of line 267 that looks at the message error only
serverFailedLastErrorOnly(chan) == chan.st = "err"

\* the test of line 267
serverFailed(chan) == chan.st = "err" \/ ~chan.ok

\* the query of the highlight request of line 289
highlightQuery(b, t) == IF b.text # <<>> THEN b.text ELSE IF b.href # <<>> THEN b.href ELSE t

\* performSearch(query) is called: a blank query returns at once
Submit(q, input) ==
  /\ pc[q] = "idle"
  /\ IF trim(input) = <<>>
     THEN UNCHANGED <<pc, text>>
     ELSE /\ text' = [text EXCEPT ![q] = trim(input)]
          /\ pc' = [pc EXCEPT ![q] = "queryActiveTab"]
  /\ UNCHANGED <<probe, style, gatewayVars, envVars, cands, best, reason, msgs, tabChan, bgChan>>

\* await queryActiveTab() settles: with a tab, the candidates request is sent;
\* with an error, the outer catch shows the friendly error
ActiveTabQueried(q, ok) ==
  /\ pc[q] = "queryActiveTab"
  /\ IF ok
     THEN /\ tabChan' = [tabChan EXCEPT ![q] = TabRequest("sniffr-candidates", <<>>)]
          /\ pc' = [pc EXCEPT ![q] = "awaitCandidates"]
          /\ UNCHANGED msgs
     ELSE /\ msgs' = [msgs EXCEPT ![q] = Append(@, Msg("error", <<>>, NoCandidate))]
          /\ pc' = [pc EXCEPT ![q] = "done"]
          /\ UNCHANGED tabChan
  /\ UNCHANGED <<probe, style, gatewayVars, envVars, text, cands, best, reason, bgChan>>

\* the candidates request settles (lines 226-260): on an error, or with no
\* candidates, the local-scoring request is sent; otherwise server-rank is
\* sent to the relay
OnCandidates(q) ==
  /\ pc[q] = "awaitCandidates"
  /\ settled(tabChan[q])
  /\ LET candidates == IF tabChan[q].st = "resp" /\ tabChan[q].isList
                       THEN slice0(tabChan[q].candidates, PROMPT_CANDIDATES)
                       ELSE <<>>
     IN IF tabChan[q].st = "err"
        THEN /\ tabChan' = [tabChan EXCEPT ![q] = TabRequest("sniffr-search", text[q])]
             /\ pc' = [pc EXCEPT ![q] = "awaitFallback232"]
             /\ UNCHANGED <<cands, bgChan>>
        ELSE IF Len(candidates) = 0
        THEN /\ tabChan' = [tabChan EXCEPT ![q] = TabRequest("sniffr-search", text[q])]
             /\ pc' = [pc EXCEPT ![q] = "awaitFallback247"]
             /\ cands' = [cands EXCEPT ![q] = candidates]
             /\ UNCHANGED bgChan
        ELSE /\ bgChan' = [bgChan EXCEPT ![q] = BgMsg("req", FALSE, NoResponse)]
             /\ pc' = [pc EXCEPT ![q] = "awaitServer"]
             /\ cands' = [cands EXCEPT ![q] = candidates]
             /\ UNCHANGED tabChan
  /\ UNCHANGED <<probe, style, gatewayVars, envVars, text, best, reason, msgs>>

\* the server-rank request settles (lines 258-323)
OnServerRank(q) ==
  /\ pc[q] = "awaitServer"
  /\ settled(bgChan[q])
  /\ LET parsed == bgChan[q].server.parsed
         i == parsed.index
     IN IF serverFailed(bgChan[q])
        THEN /\ tabChan' = [tabChan EXCEPT ![q] = TabRequest("sniffr-search", text[q])]
             /\ pc' = [pc EXCEPT ![q] = "awaitFallback269"]
             /\ UNCHANGED <<best, reason, msgs>>
        ELSE IF indexHonoured(parsed, cands[q])
        THEN IF indexDefined(i, cands[q])
             THEN \* best = candidates[parsed.index]; the highlight request is sent
                  /\ best' = [best EXCEPT ![q] = cands[q][i.n + 1]]
                  /\ reason' = [reason EXCEPT ![q] = parsed.reason]
                  /\ tabChan' = [tabChan EXCEPT ![q] =
                       TabRequest("sniffr-search",
                                  highlightQuery(cands[q][i.n + 1], text[q]))]
                  /\ pc' = [pc EXCEPT ![q] = "awaitHighlight"]
                  /\ UNCHANGED msgs
             ELSE \* best is undefined: best.text throws at line 289 (caught by
                  \* the inner catch) and again at line 298 (the outer catch)
                  /\ msgs' = [msgs EXCEPT ![q] = Append(@, Msg("error", <<>>, NoCandidate))]
                  /\ pc' = [pc EXCEPT ![q] = "done"]
                  /\ UNCHANGED <<best, reason, tabChan>>
        ELSE /\ msgs' = [msgs EXCEPT ![q] = Append(@, Msg("noconfident", <<>>, NoCandidate))]
             /\ tabChan' = [tabChan EXCEPT ![q] = TabRequest("sniffr-search", text[q])]
             /\ pc' = [pc EXCEPT ![q] = "awaitFallback316"]
             /\ UNCHANGED <<best, reason>>
  /\ UNCHANGED <<probe, style, gatewayVars, envVars, text, cands, bgChan>>

\* the highlight request settles, with a response or an error (lines 288-311)
OnHighlighted(q) ==
  /\ pc[q] = "awaitHighlight"
  /\ settled(tabChan[q])
  /\ msgs' = [msgs EXCEPT ![q] = Append(@, Msg("aipick", <<>>, best[q]))]
  /\ pc' = [pc EXCEPT ![q] = "done"]
  /\ UNCHANGED <<probe, style, gatewayVars, envVars, text, cands, best, reason, tabChan, bgChan>>

FallbackPcs == {"awaitFallback232", "awaitFallback247", "awaitFallback269", "awaitFallback316"}

\* a local-scoring fallback request settles: its response is normalised and
\* rendered; an error reaches the outer catch
OnFallback(q) ==
  /\ pc[q] \in FallbackPcs
  /\ settled(tabChan[q])
  /\ msgs' = [msgs EXCEPT ![q] =
                Append(@, IF tabChan[q].st = "err" THEN Msg("error", <<>>, NoCandidate)
                          ELSE renderResults(normalize(tabChan[q])))]
  /\ pc' = [pc EXCEPT ![q] = "done"]
  /\ UNCHANGED <<probe, style, gatewayVars, envVars, text, cands, best, reason, tabChan, bgChan>>

\* every step of the extension for query q
QueryStep(q) ==
  \/ \E input \in UserInputs : Submit(q, input)
  \/ \E ok \in BOOLEAN : ActiveTabQueried(q, ok)
  \/ OnCandidates(q)
  \/ OnServerRank(q)
  \/ OnHighlighted(q)
  \/ OnFallback(q)
  \/ ContentOnSearch(q)
  \/ \E asError \in BOOLEAN : ContentOnOther(q, asError)
  \/ CollectorOnCandidates(q)
  \/ TabUnreachable(q)
  \/ RelayFetch(q)
  \/ RelayFetchFails(q)
  \/ RelayUnreachable(q)
  \/ RelayFetchNeverSettles(q)

\* the lifecycle of one query: the second call of performSearch is never made
Next ==
  \/ QueryStep(FirstQuery)
  \/ \E req \in PeerRequests : PeerPost(req)
  \/ \E i \in 1..MaxInflight, call \in CallOutcomes : OpenAIReturns(i, call)

Spec == Init /\ [][Next]_vars

\* the lifecycle of one query on the page that has more candidates than the
\* remote stage is sent
InitWide == InitOn({WidePage}) /\ RATE = <<>>

SpecWide == InitWide /\ [][Next]_vars

\* performSearch is suspended at an await for the query
awaiting(q) == pc[q] \notin {"idle", "done"}

\* a step of a second query: performSearch is called for it while the first
\* query is awaiting a response, and it runs like any query
SecondQueryStep(q) ==
  /\ pc[q] = "idle" => awaiting(FirstQuery)
  /\ QueryStep(q)

\* two overlapping queries on one page, from an unused rate window
InitOverlap == Init /\ doc = 1 /\ RATE = <<>>

NextOverlap ==
  \/ QueryStep(FirstQuery)
  \/ \E q \in QueryIds \ {FirstQuery} : SecondQueryStep(q)
  \/ \E i \in 1..MaxInflight, call \in CallOutcomes : OpenAIReturns(i, call)

SpecOverlap == InitOverlap /\ [][NextOverlap]_vars

\* ------------------------------------------------------------------------
\* Properties of the gateway (under SpecGateway)
\* ------------------------------------------------------------------------

\* C1: for every client identifier, of the POSTs that arrive inside the 60 s
\* window opened by its first counted request, the first MAX_PER_WINDOW are
\* admitted and counted one by one, and every later one is answered 429 and
\* leaves the count at the ceiling; the first POST after the window has
\* elapsed opens a new window with the count at 1.  (The window includes its
\* last instant: rateCheck resets only when resetAt < now.)
C1_RateLimit ==
  \A ip \in DOMAIN hist.win :
    LET w == hist.win[ip] IN
    /\ ip \in DOMAIN RATE
    /\ RATE[ip].resetAt = w.start + WINDOW_MS
    /\ w.posts <= MAX_PER_WINDOW => ~w.limited /\ RATE[ip].count = w.posts
    /\ w.posts > MAX_PER_WINDOW => w.limited /\ RATE[ip].count = MAX_PER_WINDOW

\* a client whose previous window was used up and rejected a request has
\* posted again after it elapsed: admitted, count 1
C1_Witness ==
  \E ip \in DOMAIN hist.win :
    /\ hist.win[ip].prevFull
    /\ hist.win[ip].posts = 1
    /\ ~hist.win[ip].limited
    /\ RATE[ip].count = 1
    /\ RATE[ip].resetAt = now + WINDOW_MS

\* C2: a request for a (query, candidates) pair that arrives at most
\* CACHE_TTL_MS after a remote reply for the pair was stored is answered
\* cached:true without a remote call; one that arrives later than that is
\* answered after a new remote call, cached:false.  (Requests the gateway
\* rejects with 405, 429 or 400 are not about the cache.)
C2_CacheRoundTrip ==
  LET s == hist.served IN
  /\ (s.fresh /\ s.status \in {200, 500}) => s.status = 200 /\ s.cached /\ ~s.remote
  /\ (s.expired /\ s.status \in {200, 500}) => s.remote /\ ~s.cached
  /\ s.cached => s.fresh

\* after a cached:true response, a request for a pair whose stored reply had
\* expired was answered 200 cached:false by a new remote call
C2_Witness ==
  /\ hist.hadHit
  /\ hist.served.expired
  /\ hist.served.remote
  /\ hist.served.status = 200
  /\ ~hist.served.cached

\* ------------------------------------------------------------------------
\* Properties of a query's lifecycle (under Spec)
\* ------------------------------------------------------------------------

\* the remote stage of the query ended in transport failure: the message to
\* the relay failed, or the relay answered {ok: false}
transportFailed(chan) == chan.st = "err" \/ (chan.st = "resp" /\ ~chan.ok)

\* the remote stage of the query ended with the gateway's response
gatewayAnswered(chan) == chan.st = "resp" /\ chan.ok

\* what renderResults shows for the local scorer's thresholded top results for
\* the query on the page of the tab
localOutput(q) ==
  LET r == searchHandler(Docs[doc], text[q])
  IN renderResults([found |-> r.found, results |-> r.results])

\* no remote winner was taken for the query
noWinner(q) ==
  /\ best[q] = NoCandidate
  /\ \A i \in 1..Len(msgs[q]) : msgs[q][i].kind # "aipick"

\* the exchange with the tab is a local-scoring request for the query
localRequest(q) ==
  tabChan[q].type = "sniffr-search" /\ tabChan[q].query = text[q]

\* the query has left the await of the server-rank request
rankConsumed(q) == pc[q] \in FallbackPcs \cup {"awaitHighlight", "done"}

\* C3: after a transport failure of the remote stage no remote index is
\* honoured, and once the page has answered the local-scoring request the only
\* thing rendered is the local scorer's thresholded top results for the query
\* on that page
C3_FallbackCorrectness ==
  \A q \in QueryIds :
    transportFailed(bgChan[q]) =>
      /\ noWinner(q)
      /\ (pc[q] = "done" /\ tabChan[q].st = "resp") =>
           localRequest(q) /\ msgs[q] = << localOutput(q) >>

\* the relay answered {ok: false} for a query with candidates and the local
\* results were rendered
C3_Witness ==
  \E q \in QueryIds :
    /\ pc[q] = "done"
    /\ bgChan[q].st = "resp" /\ ~bgChan[q].ok
    /\ cands[q] # <<>>
    /\ tabChan[q].st = "resp"
    /\ Len(msgs[q]) = 1 /\ msgs[q][1].kind = "results"

\* the gateway's judgment carries a number that is >= the length of the
\* truncated list
indexBeyondList(q) ==
  /\ gatewayAnswered(bgChan[q])
  /\ ~bgChan[q].server.parsed.null
  /\ bgChan[q].server.parsed.index.t = "num"
  /\ bgChan[q].server.parsed.index.n >= Len(cands[q]) * bgChan[q].server.parsed.index.d

\* C4: a judgment whose index is >= the length of the truncated candidate
\* list is treated as absent: no candidate is read for it, the "no confident
\* match" bubble is shown and the local-scoring request is sent, and the
\* friendly error appears only if that request itself fails
C4_BoundsSafety ==
  \A q \in QueryIds :
    (rankConsumed(q) /\ indexBeyondList(q)) =>
      /\ noWinner(q)
      /\ pc[q] \in {"awaitFallback316", "done"}
      /\ localRequest(q)
      /\ msgs[q] # <<>> /\ msgs[q][1].kind = "noconfident"
      /\ \A i \in 1..Len(msgs[q]) : msgs[q][i].kind = "error" => tabChan[q].st = "err"

\* index 60 came back for a list of fewer candidates and the local results
\* were rendered after the "no confident match" bubble
C4_Witness ==
  \E q \in QueryIds :
    /\ pc[q] = "done"
    /\ indexBeyondList(q)
    /\ bgChan[q].server.parsed.index.n = KEY_CANDIDATES
    /\ Len(msgs[q]) = 2 /\ msgs[q][2].kind = "results"

\* C5: an honoured index i picks the candidate that was at position i of the
\* list shown to the remote call that produced the judgment, and a cached
\* judgment is served only for the list it was computed on
C5_SameList ==
  \A q \in QueryIds :
    LET server == bgChan[q].server
        i == server.parsed.index.n
    IN /\ best[q] # NoCandidate =>
            /\ (i + 1) \in 1..Len(server.prompt.lines)
            /\ server.prompt.lines[i + 1] = promptLine(best[q])
       /\ (gatewayAnswered(bgChan[q]) /\ server.cached) =>
            server.prompt = buildPrompt(text[q], cands[q])

\* the remote stage ended in one of: transport failure, 429, 500, an absent
\* judgment, a judgment with index -1
remoteDeclined(chan) ==
  \/ transportFailed(chan)
  \/ /\ gatewayAnswered(chan)
     /\ \/ chan.server.status \in {429, 500}
        \/ chan.server.status = 200 /\ chan.server.parsed.null
        \/ chan.server.status = 200 /\ chan.server.parsed.index = NumTok(0 - 1, 1)

\* C6: after each of these remote outcomes no remote winner is taken, the
\* local-scoring request for the query is sent, and once the page has answered
\* it the local ranked list is what the query resolves with
C6_DeclinedFallsBack ==
  \A q \in QueryIds :
    (rankConsumed(q) /\ remoteDeclined(bgChan[q])) =>
      /\ noWinner(q)
      /\ pc[q] \in {"awaitFallback269", "awaitFallback316", "done"}
      /\ localRequest(q)
      /\ (pc[q] = "done" /\ tabChan[q].st = "resp") =>
           msgs[q][Len(msgs[q])] = localOutput(q)
      /\ \A i \in 1..Len(msgs[q]) : msgs[q][i].kind = "error" => tabChan[q].st = "err"

\* the gateway rejected the relay's request with 429 and the local results
\* were rendered
C6_Witness ==
  \E q \in QueryIds :
    /\ pc[q] = "done"
    /\ gatewayAnswered(bgChan[q])
    /\ bgChan[q].server.status = 429
    /\ tabChan[q].st = "resp"
    /\ msgs[q][Len(msgs[q])].kind = "results"

\* C7: when a valid in-bounds index was honoured and the page handled the
\* highlight request, the highlighted element is the winner's element, or none
C7_WinnerHighlighted ==
  \A q \in QueryIds :
    (pc[q] = "done" /\ best[q] # NoCandidate /\ tabChan[q].st = "resp") =>
      hl[q] \in {best[q].el, 0}

\* C8: a candidate-collection request that reaches the page's listener, on a
\* page with at least one candidate, is answered with the candidate list
C8_CollectionAnswered ==
  \A q \in QueryIds :
    (pc[q] = "awaitCandidates" /\ tabChan[q].st \in {"resp", "err"}
       /\ tabChan[q].listener /\ getSearchCandidates(Docs[doc]) # <<>>) =>
      /\ tabChan[q].st = "resp"
      /\ tabChan[q].isList
      /\ tabChan[q].candidates = getSearchCandidates(Docs[doc])

\* C9: a local-scoring request is sent only after the server-rank request
\* has settled (with a response or an error), or when none was sent; while a
\* server-rank request is outstanding no request to the page is
C9_RemoteBeforeFallback ==
  \A q \in QueryIds :
    /\ pc[q] \in {"awaitFallback269", "awaitFallback316"} => bgChan[q].st \in {"resp", "err"}
    /\ pc[q] \in {"awaitFallback232", "awaitFallback247"} => bgChan[q].st = "none"
    /\ bgChan[q].st \in {"req", "fetching", "pending"} => tabChan[q].st # "req"

\* the local-scoring request is in flight after the gateway's answer was
\* declined
C9_Witness ==
  \E q \in QueryIds :
    /\ pc[q] = "awaitFallback316"
    /\ tabChan[q].st = "req" /\ tabChan[q].type = "sniffr-search"
    /\ bgChan[q].st = "resp" /\ bgChan[q].ok

\* performSearch has run to its end for the query
finished(q) == pc[q] = "done"

\* performSearch waits for the query on a request whose destination never
\* responds: nothing settles the promise it awaits
waitsForever(q) == pc[q] = "awaitServer" /\ bgChan[q].st = "pending"

\* C10: a query performSearch accepted has an assistant message once it can
\* make no further progress, whether it ran to its end or waits on a
\* destination that never responds
C10_AlwaysAnswered ==
  \A q \in QueryIds : (finished(q) \/ waitsForever(q)) => Len(msgs[q]) > 0

\* ------------------------------------------------------------------------
\* content.js on its own: scoreCandidate, the sniffr-search ranking and
\* getSearchCandidates applied to enumerated inputs
\* ------------------------------------------------------------------------

T_Pay == <<"P","a","y">>

T_PayMyBill == <<"P","a","y"," ","M","y"," ","B","i","l","l">>

T_ClickHere == <<"C","l","i","c","k"," ","H","e","r","e">>

\* a label that names the query "pay" among other navigation words
T_Stuffed == <<"p","a","y"," ","b","i","l","l","i","n","g"," ","p","a","y","m","e","n","t"," ","l","o","g","i","n">>

\* a one-word label longer than the 70 characters of the length shaping
T_LongWord == [i \in 1..(70 + 1) |-> "x"]

H_billing == <<"/","b","i","l","l","i","n","g">>

H_stuffed ==
  <<"/","p","a","y","/","p","o","r","t","a","l","/","a","c","c","o","u","n","t","/","d","a","s","h","b","o","a","r","d","/">>
  \o <<"h","e","l","p","/","s","u","p","p","o","r","t">>

Q_pay == <<"p","a","y">>

Q_billing == <<"b","i","l","l","i","n","g">>

ScoreTexts ==
  { T_Login, T_Pay, T_PayMyBill, T_ClickHere, T_Stuffed, T_LongWord, T_About, <<>> }

ScoreHrefs == { <<>>, H_billing, H_about, H_stuffed }

\* the queries the handler scores with (it answers an empty query before any
\* scoring): plain, with capitals and surrounding blanks, several words, long
ScoreQueries ==
  { Q_pay, <<" ">> \o T_Pay \o <<" ">>, Q_billing, Q_login,
    <<"c","l","i","c","k"," ","h","e","r","e">>, T_LongWord }

\* message.query of a sniffr-search message: those, empty, or blank
SearchQueries == ScoreQueries \cup { <<>>, <<" ", " ">> }

Candidate(type, label, href, region) ==
  [type |-> type, text |-> label, href |-> href, el |-> 1, region |-> region,
   tagName |-> CASE type = "link" -> "a" [] type = "button" -> "button" [] OTHER -> "h1"]

\* the candidates getSearchCandidates can build: a link or a button has a text
\* or an href, a heading has a text and no href
ScoreCandidates ==
  { c \in { Candidate(type, label, href, region) :
              type \in {"link", "button", "heading"}, label \in ScoreTexts,
              href \in ScoreHrefs, region \in Regions } :
      /\ c.text # <<>> \/ c.href # <<>>
      /\ c.type = "heading" => (c.text # <<>> /\ c.href = <<>>) }

\* the example page: 'Pay My Bill' in the nav, 'About Us' in the footer
PageBilling ==
  [anchors |-> << Element(1, "a", T_PayMyBill, H_billing, "nav", 5),
                  Element(2, "a", T_About, H_about, "footer", 95) >>,
   buttons |-> <<>>, heads |-> <<>>]

\* seven body links "Login n" that score the same, then a "Login" in the nav
PageMany ==
  [anchors |-> [i \in 1..8 |->
                  IF i <= 7
                  THEN Element(i, "a", T_Login \o <<" ", Digits[i + 1]>>,
                               <<"/","l","/", Digits[i + 1]>>, "", 60)
                  ELSE Element(i, "a", T_Login, H_login, "nav", 5)],
   buttons |-> <<>>, heads |-> <<>>]

\* two body links: one labelled exactly "Pay", one that names "pay" among
\* other navigation words in its label and its href
PageStuffed ==
  [anchors |-> << Element(1, "a", T_Pay, <<>>, "", 60),
                  Element(2, "a", T_Stuffed, H_stuffed, "", 60) >>,
   buttons |-> <<>>, heads |-> <<>>]

\* the label "L ddd" and href "/ddd" of the i-th link of a large page
threeDigits(i) ==
  << Digits[(i \div 100) + 1], Digits[((i \div 10) % 10) + 1], Digits[(i % 10) + 1] >>

\* a large page: MAX_CANDIDATES different links, then a button and a heading
PageLarge ==
  [anchors |-> [i \in 1..MAX_CANDIDATES |->
                  Element(1000 + i, "a", <<"L", " ">> \o threeDigits(i),
                          <<"/">> \o threeDigits(i), "", 60)],
   buttons |-> << Element(1, "button", <<"M","o","r","e">>, <<>>, "", 60) >>,
   heads |-> << Element(2, "h1", T_Welcome, <<>>, "", 10) >>]

T_LongA == [i \in 1..61 |-> IF i <= 60 THEN "a" ELSE "x"]

T_LongB == [i \in 1..61 |-> IF i <= 60 THEN "a" ELSE "y"]

T_LongC == [i \in 1..61 |-> IF i <= 59 THEN "a" ELSE "z"]

H_long == <<"/","l","o","n","g">>

\* a page that repeats itself: the same link in the nav and in the body, two
\* links whose labels agree on their first 60 characters and one that differs
\* from them at the 60th, a label used by a link, two buttons and two headings,
\* and two links whose href and label differ but concatenate to the same key
PageRepeats ==
  [anchors |-> << Element(1, "a", T_Login, H_login, "nav", 5),
                  Element(2, "a", T_LongA, H_long, "", 60),
                  Element(3, "a", T_Login, H_login, "", 60),
                  Element(4, "a", T_LongB, H_long, "", 60),
                  Element(5, "a", T_LongC, H_long, "", 60),
                  Element(6, "a", T_Welcome, <<>>, "", 60),
                  Element(7, "a", <<"c">>, <<"/","a","|","b">>, "", 60),
                  Element(8, "a", <<"b","|","c">>, <<"/","a">>, "", 60) >>,
   buttons |-> << Element(9, "button", T_Welcome, <<>>, "", 60),
                  Element(10, "button", T_Welcome, <<>>, "footer", 95) >>,
   heads |-> << Element(11, "h1", T_Welcome, <<>>, "", 10),
                Element(12, "h2", T_Welcome, <<>>, "", 60) >>]

\* the pages searched, and the pages scanned
Pages == << DocSmall, DocEmpty, PageBilling, PageMany, PageStuffed >>

ScanPages == Pages \o << DocLongB, PageLarge, PageRepeats >>

\* how many calls of scoreCandidate on other inputs separate two calls on the
\* same input
MaxOtherCalls == 1

\* the other inputs
OtherCalls == { [cand |-> Candidate("link", T_Login, H_login, "nav"), query |-> Q_login] }

\* a scorer that counts its calls and adds the count of those on other inputs
scoreOnCallCounting(c, query) == scoreCandidate(c, query) + probe.others

\* what a call scoreCandidate(c, query) returns in the current state: the
\* function reads its arguments, local constants and a regular expression
\* literal without the g flag, and nothing that a call could have changed
scoreOnCall(c, query) == scoreCandidate(c, query)

\* scoreCandidate(c, query) is called
ScoreCall(c, query) ==
  /\ probe.op = "none"
  /\ style = PlainStyle
  /\ probe' = [NoProbe EXCEPT
                 !.op = "score", !.query = query, !.cand = c,
                 !.score = scoreOnCall(c, query),
                 !.byRegion = [r \in Regions |->
                                 scoreCandidate([c EXCEPT !.region = r], query)]]
  /\ UNCHANGED <<style, gatewayVars, envVars, popupVars, tabChan, bgChan>>

\* after that call, scoreCandidate is called on another input
ScoreOther(o) ==
  /\ probe.op = "score"
  /\ probe.others < MaxOtherCalls
  /\ scoreOnCall(o.cand, o.query) \in Int
  /\ probe' = [probe EXCEPT !.others = @ + 1]
  /\ UNCHANGED <<style, gatewayVars, envVars, popupVars, tabChan, bgChan>>

\* scoreCandidate is called again on the input of the first call
ScoreAgain ==
  /\ probe.op = "score"
  /\ probe' = [probe EXCEPT !.op = "again",
                            !.again = scoreOnCall(probe.cand, probe.query)]
  /\ UNCHANGED <<style, gatewayVars, envVars, popupVars, tabChan, bgChan>>

\* the sniffr-search handler runs for message.query on page p
SearchCall(p, query) ==
  /\ probe.op = "none"
  /\ style = PlainStyle
  /\ LET r == searchHandler(Pages[p], query) IN
     probe' = [NoProbe EXCEPT
                 !.op = "search", !.query = query, !.page = p,
                 !.ranked = IF trim(query) = <<>> THEN <<>>
                            ELSE rankResults(getSearchCandidates(Pages[p]), trim(query)),
                 !.response = [found |-> r.found, results |-> r.results]]
  /\ UNCHANGED <<style, gatewayVars, envVars, popupVars, tabChan, bgChan>>

\* getSearchCandidates() is called on page p
ScanCall(p) ==
  /\ probe.op = "none"
  /\ style = PlainStyle
  /\ probe' = [NoProbe EXCEPT !.op = "scan", !.page = p,
                              !.count = Len(getSearchCandidates(ScanPages[p])),
                              !.list = getSearchCandidates(ScanPages[p])]
  /\ UNCHANGED <<style, gatewayVars, envVars, popupVars, tabChan, bgChan>>

\* how often highlightElement is called on the element
MaxHighlights == 3

\* the inline outlines a page gives the element itself
PageOutlines == { "1px solid red" }

\* the page sets an inline outline on the element before any highlight
PageStylesElement(o) ==
  /\ probe.op = "none"
  /\ style = PlainStyle
  /\ style' = [style EXCEPT !.el.outline = o, !.before = o]
  /\ UNCHANGED <<probe, gatewayVars, envVars, popupVars, tabChan, bgChan>>

\* highlightElement(el) is called: a search made the element its best result
HighlightCall ==
  /\ probe.op = "none"
  /\ style.calls < MaxHighlights
  /\ style' = [style EXCEPT !.el = highlightElement(@),
                            !.timers = @ + 1,
                            !.calls = @ + 1,
                            !.before = IF style.calls = 0 THEN style.el.outline ELSE @]
  /\ UNCHANGED <<probe, gatewayVars, envVars, popupVars, tabChan, bgChan>>

\* 2.5 s after a call its timer fires
RevertTimerFires ==
  /\ style.timers > 0
  /\ style' = [style EXCEPT !.el = revertOutline(@), !.timers = @ - 1]
  /\ UNCHANGED <<probe, gatewayVars, envVars, popupVars, tabChan, bgChan>>

InitContent == Init /\ doc = 1 /\ RATE = <<>>

NextContent ==
  \/ \E c \in ScoreCandidates, query \in ScoreQueries : ScoreCall(c, query)
  \/ \E o \in OtherCalls : ScoreOther(o)
  \/ ScoreAgain
  \/ \E p \in DOMAIN Pages, query \in SearchQueries : SearchCall(p, query)
  \/ \E p \in DOMAIN ScanPages : ScanCall(p)
  \/ \E o \in PageOutlines : PageStylesElement(o)
  \/ HighlightCall
  \/ RevertTimerFires

SpecContent == InitContent /\ [][NextContent]_vars

\* ------------------------------------------------------------------------
\* Properties of scoreCandidate, the ranking and the scan (SpecContent)
\* ------------------------------------------------------------------------

\* q of scoreCandidate: the query lower-cased and trimmed
normalQuery(query) == trim(toLowerCase(query))

\* the scored candidate's text equals the normalised query
exactMatch == probe.op = "score" /\ toLowerCase(probe.cand.text) = normalQuery(probe.query)

\* C11 as stated: a candidate whose text equals the query exactly scores at
\* least 36, whatever its region, type, href and text length.
C11_ExactAtLeast36 == exactMatch => probe.score >= 36

\* C11, amended: a candidate whose text equals the query exactly scores at
\* least 35, and at least 36 unless it is in the footer and its text is longer
\* than 70 characters.
C11_ExactLowerBound ==
  exactMatch =>
     /\ probe.score >= 35
     /\ (probe.cand.region # "footer" \/ Len(probe.cand.text) <= 70) => probe.score >= 36

\* an exact match of a long one-word label in the footer scores exactly 35
C11_Witness ==
  /\ exactMatch
  /\ probe.cand.region = "footer"
  /\ probe.cand.text = T_LongWord
  /\ probe.score = 35

\* entry r of a ranked list has a text equal to the normalised query
exactEntry(r, query) == toLowerCase(r.cand.text) = normalQuery(query)

\* C12: of two candidates in the same region, one whose text equals the query
\* exactly has a strictly higher score than one whose text does not, and is
\* ranked before it in the local result list.
C12_ExactRankedFirst ==
  probe.op = "search" =>
    \A i, j \in 1..Len(probe.ranked) :
      ( /\ probe.ranked[i].cand.region = probe.ranked[j].cand.region
        /\ exactEntry(probe.ranked[i], probe.query)
        /\ ~exactEntry(probe.ranked[j], probe.query) )
      => (probe.ranked[i].score > probe.ranked[j].score /\ i < j)

\* C13: with text, href, type and query fixed, the score falls strictly from
\* nav to header to upper to body to footer, and exceeds the body score by
\* exactly 11, 6, 4, 0 and -5 in these regions.
C13_RegionDeltas ==
  probe.op = "score" =>
    LET s == probe.byRegion IN
      /\ s["nav"] > s["header"] /\ s["header"] > s["upper"]
      /\ s["upper"] > s["body"] /\ s["body"] > s["footer"]
      /\ s["nav"] - s["body"] = 11
      /\ s["header"] - s["body"] = 6
      /\ s["upper"] - s["body"] = 4
      /\ s["body"] - s["body"] = 0
      /\ s["footer"] - s["body"] = 0 - 5
      /\ probe.score = s[probe.cand.region]

\* a heading matching the query was scored in all five regions
C13_Witness ==
  /\ probe.op = "score"
  /\ probe.cand.type = "heading"
  /\ probe.cand.region = "upper"
  /\ probe.byRegion["body"] > MIN_ACCEPT_SCORE
  /\ probe.byRegion["footer"] > 0

\* the candidates the handler of the recorded search scanned, in extraction order
scanned == getSearchCandidates(Pages[probe.page])

\* the position of candidate c in the extraction order
positionOf(c) == CHOOSE i \in 1..Len(scanned) : scanned[i] = c

\* C14: the result list has at most MAX_RESULTS entries, each with a score of
\* at least MIN_ACCEPT_SCORE, in non-increasing order of score with equal
\* scores in extraction order; no candidate left out scores higher than one
\* included; and found is true exactly when the list is non-empty.
C14_ResultList ==
  probe.op = "search" =>
    LET list == probe.ranked
        q == trim(probe.query)
        included == { list[i].cand : i \in 1..Len(list) }
    IN /\ Len(list) <= MAX_RESULTS
       /\ \A i \in 1..Len(list) :
            /\ list[i].score >= MIN_ACCEPT_SCORE
            /\ \E k \in 1..Len(scanned) : scanned[k] = list[i].cand
            /\ list[i].score = scoreCandidate(list[i].cand, q)
       /\ \A i, j \in 1..Len(list) :
            i < j => \/ list[i].score > list[j].score
                     \/ /\ list[i].score = list[j].score
                        /\ positionOf(list[i].cand) < positionOf(list[j].cand)
       /\ \A k \in 1..Len(scanned) :
            scanned[k] \notin included =>
              \A i \in 1..Len(list) : scoreCandidate(scanned[k], q) <= list[i].score
       /\ probe.response.found = (list # <<>>)
       /\ Len(probe.response.results) = Len(list)
       /\ \A i \in 1..Len(list) : probe.response.results[i].score = list[i].score

\* a search of a page with more than MAX_RESULTS candidates whose list is
\* full and has entries of equal score below its first
C14_Witness ==
  /\ probe.op = "search"
  /\ Len(probe.ranked) = MAX_RESULTS
  /\ probe.ranked[2].score = probe.ranked[3].score
  /\ probe.ranked[1].score > probe.ranked[2].score
  /\ Len(scanned) > MAX_RESULTS
  /\ probe.response.found

\* the recorded search is the example: query "billing" on the page with
\* 'Pay My Bill' (/billing, nav) and 'About Us' (/about, footer)
billingExample ==
  probe.op = "search" /\ Pages[probe.page] = PageBilling /\ probe.query = Q_billing

\* C15: in the example the first candidate scores at least 18 and the result
\* list is exactly the first candidate.
C15_BillingExample ==
  billingExample =>
    /\ Len(probe.ranked) = 1
    /\ probe.ranked[1].cand = Candidate("link", T_PayMyBill, H_billing, "nav")
    /\ probe.ranked[1].score >= 18
    /\ probe.response.found
    /\ Len(probe.response.results) = 1
    /\ probe.response.results[1].text = T_PayMyBill
    /\ probe.response.results[1].href = H_billing

\* the example was searched and its one result scores 33
C15_Witness ==
  /\ billingExample
  /\ Len(scanned) = 2
  /\ Len(probe.ranked) = 1
  /\ probe.ranked[1].score = 33

\* the recorded call scores the link 'About Us' (/about, footer) for "billing"
aboutExample ==
  /\ probe.op = "score"
  /\ probe.cand = Candidate("link", T_About, H_about, "footer")
  /\ probe.query = Q_billing

\* C16 as stated: for query "billing" the footer link 'About Us' scores at
\* most -5.
C16_AboutAtMostMinus5 == aboutExample => probe.score <= 0 - 5

\* C16, amended: for query "billing" the footer link 'About Us' scores exactly
\* 0, which the handler does not keep (it keeps scores above 0) and which is
\* below MIN_ACCEPT_SCORE.
C16_AboutScoresZero ==
  aboutExample =>
    /\ probe.score = 0
    /\ ~(probe.score > 0)
    /\ probe.score < MIN_ACCEPT_SCORE

\* 'About Us' was scored for "billing" in the footer; in the body it scores 5
C16_Witness ==
  /\ aboutExample
  /\ probe.byRegion["footer"] = probe.score
  /\ probe.byRegion["body"] = 5

\* C17: getSearchCandidates returns at most MAX_CANDIDATES candidates for
\* every page.
C17_AtMostMaxCandidates == probe.op = "scan" => probe.count <= MAX_CANDIDATES

\* ------------------------------------------------------------------------
\* Properties of the gateway's shared maps (SpecGateway)
\* ------------------------------------------------------------------------

\* this step is the handler answering a posted request with the given status
\* without suspending
answeredWith(status) ==
  /\ peers' # peers
  /\ inflight' = inflight
  /\ hist'.served.status = status

\* C18: a request of malformed shape is answered 400 and mutates no state: RATE
\* and CACHE are the same after the request as before it.
C18_MalformedMutatesNothing ==
  [][answeredWith(400) => (RATE' = RATE /\ CACHE' = CACHE)]_vars

\* C19: a request rejected with 429 still updates the client's rate counter:
\* RATE does not stay unchanged.
C19_RejectedStillCounted ==
  [][answeredWith(429) => RATE' # RATE]_vars

\* C20: no request observes a cache miss while another request with the same
\* cache key is between its cache check and its cache insert, so no two remote
\* calls for one key are under way.
C20_CheckThenInsertAtomic ==
  [][Len(inflight') > Len(inflight) =>
       \A i \in 1..Len(inflight) : inflight[i].key # inflight'[Len(inflight')].key]_vars

\* C21: after any sequence of highlightElement calls on an element, once all
\* revert timers have fired the element's outline is the outline it had before
\* the first highlight.
C21_OutlineRestored ==
  (style.calls > 0 /\ style.timers = 0) => style.el.outline = style.before

\* this step is a handler resuming from the remote call and responding
resumed == Len(inflight') < Len(inflight)

\* this step is a handler responding to a posted request without suspending
answered == peers' # peers /\ inflight' = inflight

\* the assistant text has no slice from its first "{" to its last "}" that
\* decodes as JSON
undecodable(raw) == parseAssistant(raw) = Null

\* C22: a remote reply that cannot be decoded is answered 200 with parsed null
\* and cached:false and is stored as {raw, parsed: null} under the cache key
\* for the TTL; a request with the same key that arrives within the TTL is
\* answered from the cache, parsed null, without a remote call.
C22_UndecodableCached ==
  [][LET s == hist'.served IN
     /\ (resumed /\ ~s.call.throws /\ undecodable(s.call.raw)) =>
          /\ s.status = 200 /\ ~s.cached
          /\ res'.ok /\ res'.parsed = Null /\ res'.raw = s.call.raw
          /\ s.key \in DOMAIN CACHE'
          /\ CACHE'[s.key].value.raw = s.call.raw
          /\ CACHE'[s.key].value.parsed = Null
          /\ CACHE'[s.key].expiresAt = now + CACHE_TTL_MS
     /\ (answered /\ s.status \notin {405, 429, 400} /\ s.fresh
           /\ undecodable(hist.fillRaw[s.key])) =>
          /\ s.status = 200 /\ s.cached /\ ~s.remote
          /\ res'.ok /\ res'.parsed = Null /\ res'.raw = hist.fillRaw[s.key]
    ]_vars

\* an undecodable reply that has braces was stored, and a later request with
\* the same key was answered from the cache with parsed null
C22_Witness ==
  /\ hist.served.cached
  /\ ~hist.served.remote
  /\ hist.served.key \in DOMAIN hist.fillRaw
  /\ indexOfTok(hist.fillRaw[hist.served.key], LB) >= 0
  /\ undecodable(hist.fillRaw[hist.served.key])
  /\ res.status = 200 /\ res.cached /\ res.parsed = Null

\* the cache key of the request this step is the arrival of
arrivedKey ==
  IF Len(inflight') > Len(inflight) THEN inflight'[Len(inflight')].key
  ELSE hist'.served.key

\* C23: when the remote call fails, the gateway answers 500 with ok:false and
\* no judgment, and writes no cache entry; the next request with the same key
\* (no reply for it being stored) invokes the remote call again.
C23_FailureNotCached ==
  [][/\ (resumed /\ hist'.served.call.throws) =>
          /\ hist'.served.status = 500
          /\ ~res'.ok /\ ~res'.cached /\ res'.parsed = Null /\ res'.raw = <<>>
          /\ CACHE' = CACHE
     /\ ( /\ peers' # peers
          /\ hist.served.status = 500 /\ hist.served.call.throws
          /\ arrivedKey = hist.served.key
          /\ ~isFresh(hist.fillAt, arrivedKey, now) ) =>
          \/ Len(inflight') > Len(inflight)
          \/ hist'.served.status \in {405, 429, 400}
    ]_vars

\* a remote call failed, its request was answered 500, and requests with the
\* same key are suspended in new remote calls
C23_Witness ==
  /\ hist.served.status = 500
  /\ hist.served.call.throws
  /\ res.status = 500 /\ ~res.ok
  /\ hist.served.key \notin DOMAIN CACHE
  /\ Len(inflight) = MaxInflight
  /\ \A i \in 1..Len(inflight) : inflight[i].key = hist.served.key

C25_CountWithinCeiling ==
  /\ \A ip \in DOMAIN RATE : RATE[ip].count \in 1..MAX_PER_WINDOW
  /\ \A ip \in DOMAIN hist.win :
       /\ hist.win[ip].admitted <= MAX_PER_WINDOW
       /\ hist.win[ip].admitted = RATE[ip].count

\* two clients are counted; one is at the ceiling, has been rejected, and
\* handlers of its admitted requests are suspended in the remote call
C25_Witness ==
  /\ OtherIp \in DOMAIN RATE
  /\ ClientIp \in DOMAIN hist.win
  /\ RATE[ClientIp].count = MAX_PER_WINDOW
  /\ hist.win[ClientIp].limited
  /\ hist.win[ClientIp].posts > MAX_PER_WINDOW
  /\ Len(inflight) > 0

\* this step is a request arriving at the handler
posted == peers' # peers

\* the client address of the request that arrives in this step
postedIp ==
  IF Len(inflight') > Len(inflight) THEN inflight'[Len(inflight')].req.ip
  ELSE hist'.served.ip

\* the client has used up its ceiling in its current window
atCeiling(ip) ==
  /\ ip \in DOMAIN RATE
  /\ RATE[ip].resetAt >= now
  /\ RATE[ip].count >= MAX_PER_WINDOW

\* the request of this step is counted in the client's window: the count of
\* a running window grows by one, a new window starts at one
countedFor(ip) ==
  /\ ip \in DOMAIN RATE'
  /\ RATE'[ip].count = IF ip \in DOMAIN RATE /\ RATE[ip].resetAt >= now
                       THEN RATE[ip].count + 1 ELSE 1

\* C29: the rate check precedes the cache lookup for every POST: a request
\* served from the cache is counted against its client's ceiling; a client at
\* its ceiling is rejected with 429 even when an unexpired cache entry exists
\* for its request; a rejected request makes no remote call and leaves the
\* cache unchanged
C29_RateCheckBeforeCache ==
  [][posted =>
       LET ip == postedIp
           s == hist'.served
       IN /\ (answered /\ s.cached) => countedFor(ip)
          /\ (atCeiling(ip) /\ (answered => s.status # 405)) =>
               answered /\ s.status = 429
          /\ (answered /\ s.status = 429) =>
               CACHE' = CACHE /\ inflight' = inflight]_vars

\* a request was served from the cache and took its client to the ceiling;
\* the next request for the same key, its cache entry still valid, was
\* rejected with 429
C29_Witness ==
  /\ hist.hadHit
  /\ hist.served.status = 429
  /\ hist.served.fresh
  /\ hist.served.key \in DOMAIN CACHE
  /\ CACHE[hist.served.key].expiresAt >= now
  /\ hist.served.ip \in DOMAIN RATE
  /\ RATE[hist.served.ip].count = MAX_PER_WINDOW
  /\ inflight = <<>>

\* the key of a candidate: its type, its href and the first 60 characters of
\* its text
keyOf(c) == << c.type, c.href, slice0(c.text, 60) >>

\* the candidates the three loops build, in scan order: the visible links
\* with a text or an href, then the buttons, then the headings with a text,
\* each group in document order
inScanOrder(d) ==
  LET built(kind, els) ==
        [i \in 1..Len(els) |-> [skip |-> skipElement(kind, els[i]),
                                cand |-> candidateOf(kind, els[i])]]
      all == built("link", d.anchors) \o built("button", d.buttons)
               \o built("heading", d.heads)
      kept == SelectSeq(all, LAMBDA b : ~b.skip)
  IN [i \in 1..Len(kept) |-> kept[i].cand]

\* the position in scan order of the first candidate with the key of c
firstWithKey(order, c) ==
  CHOOSE n \in 1..Len(order) :
    /\ keyOf(order[n]) = keyOf(c)
    /\ \A m \in 1..(n - 1) : keyOf(order[m]) # keyOf(c)

\* C28: the sequence getSearchCandidates returns never holds two candidates
\* with the same key (type, href, first 60 characters of text); its members
\* are in scan order (links, buttons, headings, each group in document order)
\* and each is the first occurrence of its key
C28_UniqueInScanOrder ==
  probe.op = "scan" =>
    LET order == inScanOrder(ScanPages[probe.page])
        out == probe.list
        at == [i \in 1..Len(out) |-> firstWithKey(order, out[i])]
    IN /\ \A i \in 1..Len(out) : \E n \in 1..Len(order) : order[n] = out[i]
       /\ \A i \in 1..Len(out) : out[i] = order[at[i]]
       /\ \A i \in 1..(Len(out) - 1) : at[i] < at[i + 1]
       /\ \A i, j \in 1..Len(out) : i # j => keyOf(out[i]) # keyOf(out[j])

\* a page whose links, buttons and headings repeat keys was scanned, and the
\* scan dropped some of them and kept candidates of all three types
C28_Witness ==
  /\ probe.op = "scan"
  /\ LET order == inScanOrder(ScanPages[probe.page]) IN
     /\ \E m, n \in 1..Len(order) : m < n /\ keyOf(order[m]) = keyOf(order[n])
     /\ Len(probe.list) < Len(order)
     /\ \A t \in {"link", "button", "heading"} :
          \E i \in 1..Len(probe.list) : probe.list[i].type = t

\* ------------------------------------------------------------------------
\* Properties of the local fallback on a long page (SpecWide)
\* ------------------------------------------------------------------------

\* what getSearchCandidates() extracts from the page of the tab
extracted == getSearchCandidates(Docs[doc])

\* the local scores of the extracted candidates for the query, by extraction
\* position (from 1)
scoresOf(q) ==
  LET all == extracted
  IN [k \in 1..Len(all) |-> scoreCandidate(all[k], trim(text[q]))]

\* the positions the sort places before position k
rankedBefore(scores, k) ==
  { j \in DOMAIN scores :
      \/ scores[j] > scores[k]
      \/ scores[j] = scores[k] /\ j < k }

\* the candidate at position k meets the threshold and is among the top
\* MAX_RESULTS scores
amongTop(scores, k) ==
  /\ scores[k] >= MIN_ACCEPT_SCORE
  /\ Cardinality(rankedBefore(scores, k)) < MAX_RESULTS

\* LocalFallback has rendered the page's answer to its local-scoring request
fallbackRendered(q) ==
  /\ pc[q] = "done"
  /\ tabChan[q].type = "sniffr-search" /\ tabChan[q].st = "resp"
  /\ msgs[q] # <<>>
  /\ msgs[q][Len(msgs[q])].kind \in {"results", "notfound"}

\* the result list of the last bubble of the query
lastResults(q) == msgs[q][Len(msgs[q])].results

\* C27: LocalFallback scores the full extracted candidate set: a candidate at
\* extraction position 80 (counting from 0) or later that meets the threshold
\* and is among the top 5 scores appears in the fallback result list
C27_FallbackScoresFullSet ==
  \A q \in QueryIds :
    fallbackRendered(q) =>
      LET all == extracted
          scores == scoresOf(q)
      IN \A k \in (PROMPT_CANDIDATES + 1)..Len(all) :
           amongTop(scores, k) =>
             \E i \in 1..Len(lastResults(q)) :
               lastResults(q)[i] =
                 serialResult([score |-> scores[k], cand |-> all[k]])

\* the remote stage was sent the list truncated to PROMPT_CANDIDATES, the
\* fallback ran, and a candidate beyond the truncated list is in its results
C27_Witness ==
  \E q \in QueryIds :
    /\ fallbackRendered(q)
    /\ Len(cands[q]) = PROMPT_CANDIDATES
    /\ bgChan[q].st \in {"resp", "err"}
    /\ LET all == extracted
           scores == scoresOf(q)
       IN \E k \in (PROMPT_CANDIDATES + 1)..Len(all) :
            /\ amongTop(scores, k)
            /\ \E i \in 1..Len(lastResults(q)) :
                 lastResults(q)[i].href = all[k].href

\* the gateway's judgment for the query was decoded and its index is not an
\* integer position of the truncated list: not a number, negative, fractional
\* or >= the length of the list
indexNotPosition(q) ==
  /\ gatewayAnswered(bgChan[q])
  /\ ~bgChan[q].server.parsed.null
  /\ LET i == bgChan[q].server.parsed.index IN
     ~(i.t = "num" /\ i.d = 1 /\ i.n >= 0 /\ i.n < Len(cands[q]))

\* the query's exchange with the tab is the local-scoring request of
\* LocalFallback
fallbackRequested(q) ==
  /\ pc[q] \in FallbackPcs \cup {"done"}
  /\ localRequest(q)

\* C30: a parsed remote judgment whose index is not an integer position of
\* the truncated candidate list (a non-number, a negative number, a fraction
\* such as 1.5, a number >= the list length) leads performSearch to
\* LocalFallback: no winner is taken, the local-scoring request is made, and
\* the generic error bubble is shown only if that request fails
C30_BadIndexFallsBack ==
  \A q \in QueryIds :
    (indexNotPosition(q) /\ rankConsumed(q)) =>
      /\ noWinner(q)
      /\ fallbackRequested(q)
      /\ \A i \in 1..Len(msgs[q]) :
           msgs[q][i].kind = "error" => tabChan[q].st = "err"

\* ------------------------------------------------------------------------
\* Properties of two overlapping queries (SpecOverlap)
\* ------------------------------------------------------------------------

\* C26: a second query issued while the first is awaiting a response does not
\* cancel or suppress the first: once neither can make progress, both have
\* rendered their outcome.
C26_BothRender ==
  (\A q \in QueryIds : finished(q) \/ waitsForever(q)) =>
    (\A q \in QueryIds : Len(msgs[q]) > 0)

====
